---------------------------- MODULE Spec2Model ----------------------------
(***************************************************************************)
(* A model of lfy, a header-only C++ logging core:                         *)
(*   - FileOutputter<N> (include/lfy/Outputter.hpp): a fixed-capacity      *)
(*     line buffer in front of a file, serialised by the sink's mutex;     *)
(*   - SegmentTrie<T> (include/lfy/SegmentTrie.hpp): the Prefix Index;     *)
(*   - Repository (include/lfy/Repository.hpp): the logger registry;       *)
(*   - Logger (include/lfy/Logger.hpp): level filter and fan-out to sinks. *)
(* Each component has its own specification over its own variables; the    *)
(* variables of the other components stay at their initial value.          *)
(***************************************************************************)
EXTENDS Integers, Sequences, FiniteSets

VARIABLES
  \* ---- FileOutputter<N> and the threads calling it
  cap,                 \* N, the template parameter: m_buffer.size()
  m_buffer,            \* std::array<char, N>, indices 1..cap
  m_bufferWriteIndex,  \* the write cursor
  m_mutex,             \* the sink's std::mutex: Free or the holding thread
  m_lastFlush,         \* time of the last write to the file
  file,                \* the bytes the backing file has received
  destroyed,           \* the body of ~FileOutputter has run
  m_file,              \* the FILE* m_file owns, Null once released
  closes,              \* the number of fclose calls made on the file
  pc,                  \* per thread: the statement it is at
  cur,                 \* per thread: the message of the call in progress
  sent,                \* per thread: the messages it has passed to output()
  \* ---- SegmentTrie<T>, driven directly
  trie,                \* the nodes of the tree and the value each carries
  reg,                 \* key -> the value of the last insert not yet removed
  lastRemoved,         \* the key the last step removed a value from, if any
  \* ---- Repository and the threads calling getLogger
  m_loggers,           \* Singleton::m_loggers, a SegmentTrie<Logger>
  repoMutex,           \* Singleton::m_mutex
  heap,                \* the Logger objects allocated so far
  rpc,                 \* per thread: the statement of getLogger it is at
  rarg,                \* per thread: the arguments and locals of its call
  returned,            \* every <<path, logger>> a getLogger call has returned
  configured,          \* the number of setter calls made on loggers
  registered,          \* path -> the logger last registered under it
  \* ---- one Logger and its sinks, driven sequentially
  lg,                  \* the Logger: level, sink list, generators, flusher
  sinks,               \* per sink: buffer and delivered bytes
  clock,               \* the steady clock
  lastCall,            \* what the last debug/info/warn/error call did
  \* ---- one FileOutputter and the path it is constructed on
  disk,                \* the path: whether it exists, its bytes, access
  fo,                  \* the FileOutputter: outcome of construction, buffer
  \* ---- one Logger used by two threads
  lk,                  \* the Logger: m_mutex, lists, flusher
  hpc,                 \* per thread: where it is in a log call or a setter
  \* ---- headergen::_InternalTime on one thread
  cachedTimes,         \* (timeType, fmt) -> TimeCache, thread_local
  cachedLocalTimeZoneOffset, \* thread_local, minutes
  tenv,                \* wall clock, zone, platform; what the last call did
  \* ---- write_bytes / write_line on a native file handle
  wr,                  \* the call in progress and the bytes of the file
  \* ---- a SegmentMap beside the SegmentTrie
  m_map,               \* the entries of the SegmentMap
  mq,                  \* the last lookup made in both, and its results
  \* ---- threads and the locks of repository, loggers and sinks
  lockOwner,           \* lock -> the thread holding it, or Free
  thr,                 \* per thread: the call it is in and where
  live                 \* the registry's entry, the objects alive, the buffers

sinkVars == <<cap, m_buffer, m_bufferWriteIndex, m_mutex, m_lastFlush, file,
              destroyed, m_file, closes, pc, cur, sent>>
trieVars == <<trie, reg, lastRemoved>>
repoVars ==
  <<m_loggers, repoMutex, heap, rpc, rarg, returned, configured, registered>>
logVars  == <<lg, sinks, clock, lastCall>>
fileVars == <<disk, fo>>
hotVars  == <<lk, hpc>>
timeVars == <<cachedTimes, cachedLocalTimeZoneOffset, tenv>>
nativeVars == <<wr>>
mapVars  == <<m_map, mq>>
lockVars == <<lockOwner, thr, live>>
extVars  == <<fileVars, hotVars, timeVars, nativeVars, mapVars, lockVars>>
vars     == <<sinkVars, trieVars, repoVars, logVars, extVars>>

-----------------------------------------------------------------------------
(* Generic helpers *)

Free == "free"
Null == "null"
NL   == "\n"

RECURSIVE Flatten(_)
\* The concatenation m1 NL m2 NL ... mk NL of a sequence of messages.
Flatten(ms) ==
  IF ms = <<>> THEN <<>> ELSE Head(ms) \o <<NL>> \o Flatten(Tail(ms))

RECURSIVE Replicate(_, _)
Replicate(b, n) == IF n = 0 THEN <<>> ELSE <<b>> \o Replicate(b, n - 1)

RECURSIVE SumOver(_, _)
\* The sum of f[x] over the elements x of S.
SumOver(S, f) ==
  IF S = {} THEN 0
  ELSE LET x == CHOOSE y \in S : TRUE IN f[x] + SumOver(S \ {x}, f)

RECURSIVE Interleavings(_)
\* Every merge of the sequences f[t] that keeps each f[t] in its own order.
Interleavings(f) ==
  IF \A t \in DOMAIN f : f[t] = <<>> THEN {<<>>}
  ELSE UNION { { <<Head(f[t])>> \o r :
                   r \in Interleavings([f EXCEPT ![t] = Tail(f[t])]) } :
               t \in {u \in DOMAIN f : f[u] # <<>>} }

RECURSIVE LinesOf(_, _)
\* The lines of a byte sequence: the runs between terminators; acc is the
\* line being read.  A final run without terminator is kept as a last,
\* unterminated line.
LinesOf(bytes, acc) ==
  IF bytes = <<>> THEN (IF acc = <<>> THEN <<>> ELSE <<acc>>)
  ELSE IF Head(bytes) = NL THEN <<acc>> \o LinesOf(Tail(bytes), <<>>)
  ELSE LinesOf(Tail(bytes), Append(acc, Head(bytes)))

Count(s, x) == Cardinality({i \in DOMAIN s : s[i] = x})

-----------------------------------------------------------------------------
(* FileOutputter<N>: include/lfy/Outputter.hpp, lines 132-214 *)

MaxCap    == 3   \* buffer capacities 0..MaxCap
MaxMsgLen == 3   \* message lengths 0..MaxMsgLen
MaxCalls  == 2   \* output() calls per thread

Threads == {"t1", "t2"}
\* The payload byte of each thread; the sink never looks at payload bytes.
Tag(t) == IF t = "t1" THEN "a" ELSE "b"
Msgs(t) == {Replicate(Tag(t), n) : n \in 0..MaxMsgLen}
Uninit == "?"

SinkInit ==
  /\ cap \in 0..MaxCap
  /\ m_buffer = [i \in 1..cap |-> Uninit]
  /\ m_bufferWriteIndex = 0
  /\ m_mutex = Free
  /\ m_lastFlush = 0
  /\ file = <<>>
  /\ destroyed = FALSE
  /\ m_file = "open"
  /\ closes = 0
  /\ pc = [t \in Threads |-> "idle"]
  /\ cur = [t \in Threads |-> <<>>]
  /\ sent = [t \in Threads |-> <<>>]

SinkIdle ==
  /\ cap = 0 /\ m_buffer = <<>> /\ m_bufferWriteIndex = 0 /\ m_mutex = Free
  /\ m_lastFlush = 0 /\ file = <<>> /\ destroyed = FALSE
  /\ m_file = "open" /\ closes = 0
  /\ pc = [t \in Threads |-> "idle"]
  /\ cur = [t \in Threads |-> <<>>]
  /\ sent = [t \in Threads |-> <<>>]

\* std::lock_guard l{m_mutex}: the constructor blocks until the mutex is free.
MutexAvailableNoExclusion(owner) == TRUE
MutexAvailable(owner) == owner = Free

\* (m_bufferWriteIndex + message.size() + 1) > m_buffer.size()
NeedsFlushOffByOne(idx, len, n) == idx + len > n
NeedsFlushSkipsOversized(idx, len, n) == idx + len + 1 > n /\ len + 1 <= n
NeedsFlush(idx, len, n) == idx + len + 1 > n

\* message.size() + 1 > m_buffer.size()
IsOversizedOffByOne(len, n) == len > n
IsOversized(len, n) == len + 1 > n

\* details::write(begin, 1, count, m_file): count bytes appended to the file
\* (opened "a", unbuffered by setvbuf(_IONBF)).
Write(f, bytes) == f \o bytes

\* std::memcpy(&m_buffer[at], message.data(), message.size()), at 0-based.
Memcpy(buf, at, msg) ==
  [i \in DOMAIN buf |->
     IF at < i /\ i <= at + Len(msg) THEN msg[i - at] ELSE buf[i]]

\* The bytes [0, cursor) of the buffer, as a write of cursor bytes starting at
\* m_buffer.data() reads them; a byte beyond the array is indeterminate.
Buffered ==
  [i \in 1..m_bufferWriteIndex |-> IF i <= cap THEN m_buffer[i] ELSE Uninit]

\* flushUnlocked(): nothing when the cursor is 0, else one write of the
\* buffered bytes, cursor to 0 and the flush time recorded.
FlushUnlockedKeepsCursor ==
  IF m_bufferWriteIndex = 0
  THEN UNCHANGED <<file, m_bufferWriteIndex, m_lastFlush>>
  ELSE /\ file' = Write(file, Buffered)
       /\ UNCHANGED m_bufferWriteIndex
       /\ m_lastFlush' = clock
FlushUnlocked ==
  IF m_bufferWriteIndex = 0
  THEN UNCHANGED <<file, m_bufferWriteIndex, m_lastFlush>>
  ELSE /\ file' = Write(file, Buffered)
       /\ m_bufferWriteIndex' = 0
       /\ m_lastFlush' = clock

\* What no action on the sink touches.
SinkFrame == UNCHANGED <<trieVars, repoVars, logVars, extVars>>

\* A thread calls output(message); line 150: std::lock_guard l{m_mutex}.
\* The call blocks until the mutex is free and changes nothing before.
OutputLock(t) ==
  /\ ~destroyed /\ pc[t] = "idle" /\ Len(sent[t]) < MaxCalls
  /\ MutexAvailable(m_mutex)
  /\ \E m \in Msgs(t) :
       /\ cur' = [cur EXCEPT ![t] = m]
       /\ sent' = [sent EXCEPT ![t] = Append(@, m)]
  /\ m_mutex' = t
  /\ pc' = [pc EXCEPT ![t] = "o_check"]
  /\ UNCHANGED <<cap, m_buffer, m_bufferWriteIndex, m_lastFlush, file,
                 destroyed>>
  /\ UNCHANGED <<m_file, closes>>
  /\ SinkFrame

\* output(), lines 153-154: flush first when the message does not fit.
OutputCheckFull(t) ==
  /\ pc[t] = "o_check"
  /\ IF NeedsFlush(m_bufferWriteIndex, Len(cur[t]), cap)
     THEN FlushUnlocked
     ELSE UNCHANGED <<file, m_bufferWriteIndex, m_lastFlush>>
  /\ pc' = [pc EXCEPT ![t] = "o_size"]
  /\ UNCHANGED <<cap, m_buffer, m_mutex, destroyed, cur, sent>>
  /\ UNCHANGED <<m_file, closes>>
  /\ SinkFrame

\* output(), lines 159-161: an oversized message goes to the file directly.
OutputDirectMessage(t) ==
  /\ pc[t] = "o_size" /\ IsOversized(Len(cur[t]), cap)
  /\ file' = Write(file, cur[t])
  /\ pc' = [pc EXCEPT ![t] = "o_direct_nl"]
  /\ UNCHANGED <<cap, m_buffer, m_bufferWriteIndex, m_mutex, m_lastFlush,
                 destroyed, cur, sent>>
  /\ UNCHANGED <<m_file, closes>>
  /\ SinkFrame

\* output(), lines 162-165: the terminator, the flush time, cursor to 0.
OutputDirectTerminator(t) ==
  /\ pc[t] = "o_direct_nl"
  /\ file' = Write(file, <<NL>>)
  /\ m_lastFlush' = clock
  /\ m_bufferWriteIndex' = 0
  /\ pc' = [pc EXCEPT ![t] = "o_unlock"]
  /\ UNCHANGED <<cap, m_buffer, m_mutex, destroyed, cur, sent>>
  /\ UNCHANGED <<m_file, closes>>
  /\ SinkFrame

\* output(), lines 168-169: the message is copied at the cursor.
OutputCopy(t) ==
  /\ pc[t] = "o_size" /\ ~IsOversized(Len(cur[t]), cap)
  /\ m_buffer' = Memcpy(m_buffer, m_bufferWriteIndex, cur[t])
  /\ m_bufferWriteIndex' = m_bufferWriteIndex + Len(cur[t])
  /\ pc' = [pc EXCEPT ![t] = "o_term"]
  /\ UNCHANGED <<cap, m_mutex, m_lastFlush, file, destroyed, cur, sent>>
  /\ UNCHANGED <<m_file, closes>>
  /\ SinkFrame

\* output(), line 170: m_buffer[m_bufferWriteIndex++] = '\n'
OutputTerminator(t) ==
  /\ pc[t] = "o_term"
  /\ m_buffer' = Memcpy(m_buffer, m_bufferWriteIndex, <<NL>>)
  /\ m_bufferWriteIndex' = m_bufferWriteIndex + 1
  /\ pc' = [pc EXCEPT ![t] = "o_unlock"]
  /\ UNCHANGED <<cap, m_mutex, m_lastFlush, file, destroyed, cur, sent>>
  /\ UNCHANGED <<m_file, closes>>
  /\ SinkFrame

\* A thread calls flush(); line 179: std::lock_guard l{m_mutex}
FlushLock(t) ==
  /\ ~destroyed /\ pc[t] = "idle" /\ MutexAvailable(m_mutex)
  /\ m_mutex' = t
  /\ pc' = [pc EXCEPT ![t] = "f_body"]
  /\ UNCHANGED <<cap, m_buffer, m_bufferWriteIndex, m_lastFlush, file,
                 destroyed, cur, sent>>
  /\ UNCHANGED <<m_file, closes>>
  /\ SinkFrame

\* flush(), line 180: flushUnlocked()
FlushBody(t) ==
  /\ pc[t] = "f_body"
  /\ FlushUnlocked
  /\ pc' = [pc EXCEPT ![t] = "o_unlock"]
  /\ UNCHANGED <<cap, m_buffer, m_mutex, destroyed, cur, sent>>
  /\ UNCHANGED <<m_file, closes>>
  /\ SinkFrame

\* The lock_guard's destructor at the end of output() or flush().
Unlock(t) ==
  /\ pc[t] = "o_unlock"
  /\ m_mutex' = Free
  /\ pc' = [pc EXCEPT ![t] = "idle"]
  /\ UNCHANGED <<cap, m_buffer, m_bufferWriteIndex, m_lastFlush, file,
                 destroyed, cur, sent>>
  /\ UNCHANGED <<m_file, closes>>
  /\ SinkFrame

\* The body of ~FileOutputter(), lines 143-147: nothing when the cursor is
\* 0, else one write of the buffered bytes.
DestructorSkipsWrite(f, idx, bytes) == f
DestructorWrite(f, idx, bytes) == IF idx = 0 THEN f ELSE Write(f, bytes)

\* ~FileOutputter(), lines 141-148, run by the last owner of the sink, when
\* no call is in progress.
Destroy ==
  /\ ~destroyed /\ \A t \in Threads : pc[t] = "idle"
  /\ MutexAvailable(m_mutex)
  /\ file' = DestructorWrite(file, m_bufferWriteIndex, Buffered)
  /\ destroyed' = TRUE
  /\ UNCHANGED <<cap, m_buffer, m_bufferWriteIndex, m_mutex, m_lastFlush,
                 pc, cur, sent>>
  /\ UNCHANGED <<m_file, closes>>
  /\ SinkFrame

\* details::safe_fclose(f), lines 30-33, as the deleter of m_file and as
\* close_native does for its descriptor: fclose on a handle that is still
\* held, nothing on one already released.
SafeFclose(f, n) == IF f # Null THEN n + 1 ELSE n

\* The destruction of the member m_file after the destructor's body; a
\* repeated release finds the handle gone.
ReleaseFile ==
  /\ destroyed
  /\ closes' = SafeFclose(m_file, closes)
  /\ m_file' = Null
  /\ UNCHANGED <<cap, m_buffer, m_bufferWriteIndex, m_mutex, m_lastFlush,
                 file, destroyed, pc, cur, sent>>
  /\ SinkFrame

SinkNext ==
  \/ \E t \in Threads :
       \/ OutputLock(t) \/ OutputCheckFull(t)
       \/ OutputDirectMessage(t) \/ OutputDirectTerminator(t)
       \/ OutputCopy(t) \/ OutputTerminator(t)
       \/ FlushLock(t) \/ FlushBody(t) \/ Unlock(t)
  \/ Destroy
  \/ ReleaseFile


-----------------------------------------------------------------------------
(* SegmentTrie<T>: include/lfy/SegmentTrie.hpp *)
(*                                                                         *)
(* A key is a sequence of characters.  A node is named by the sequence of  *)
(* segment labels on the way from the root, the root by <<>>; a trie is    *)
(* the function from its nodes to m_value (Null for an empty pointer), and *)
(* the children of a node are the nodes one label longer.                  *)

MaxKeyLen    == 5   \* keys of non-empty segments: up to this many characters
MaxSegLen    == 2   \* ... each segment up to this many characters
MaxRaggedLen == 2   \* keys with empty segments: up to this many characters
MaxEntries   == 3   \* keys carrying a value at one time

Dot == "."
Alphabet == {"a", Dot}
Vals == {"v1", "v2"}

Strings(n) == UNION { [1..m -> Alphabet] : m \in 0..n }

\* No empty segment (no leading, trailing or doubled delimiter) and no
\* segment longer than MaxSegLen.
WellFormed(k) ==
  /\ k # <<>> /\ k[1] # Dot /\ k[Len(k)] # Dot
  /\ \A i \in 1..(Len(k) - 1) : ~(k[i] = Dot /\ k[i + 1] = Dot)
  /\ \A i \in 1..(Len(k) - MaxSegLen) :
       \E j \in i..(i + MaxSegLen) : k[j] = Dot

\* The keys inserted and removed, and the keys looked up (two characters
\* longer, so that a lookup can lie below every inserted key).
Keys == {k \in Strings(MaxKeyLen) : Len(k) <= MaxRaggedLen \/ WellFormed(k)}
Queries ==
  {q \in Strings(MaxKeyLen + 2) : Len(q) <= MaxRaggedLen + 1 \/ WellFormed(q)}

RECURSIVE SplitFrom(_, _)
SplitFrom(s, acc) ==
  IF s = <<>> THEN <<acc>>
  ELSE IF Head(s) = Dot THEN <<acc>> \o SplitFrom(Tail(s), <<>>)
  ELSE SplitFrom(Tail(s), Append(acc, Head(s)))

RECURSIVE SplitEveryCharFrom(_)
SplitEveryCharFrom(s) ==
  IF s = <<>> THEN <<>>
  ELSE IF Head(s) = Dot THEN SplitEveryCharFrom(Tail(s))
  ELSE <<<<Head(s)>>>> \o SplitEveryCharFrom(Tail(s))

\* std::views::split(key, m_delimiter): the segments between delimiters,
\* empty ones included; the empty key has no segment at all.
SplitEveryChar(key) == SplitEveryCharFrom(key)
Split(key) == IF key = <<>> THEN <<>> ELSE SplitFrom(key, <<>>)

Root == <<>>
NoNode == "none"

\* SegmentTrie() = default: a root without value or children.
EmptyTrie == [n \in {Root} |-> Null]

\* TransparentEqual: lhs == rhs on the label of a child and a segment.
SegmentEqualStartsWith(label, seg) ==
  Len(label) <= Len(seg) /\ SubSeq(seg, 1, Len(label)) = label
SegmentEqual(label, seg) == label = seg

Children(t, node) ==
  {c \in DOMAIN t : Len(c) = Len(node) + 1 /\ SubSeq(c, 1, Len(node)) = node}

\* node.m_children.find(segmentView): the child, or NoNode for end().
FindChild(t, node, seg) ==
  LET cs == {c \in Children(t, node) : SegmentEqual(c[Len(c)], seg)} IN
    IF cs = {} THEN NoNode ELSE CHOOSE c \in cs : TRUE

RECURSIVE InsertWalk(_, _, _, _)
InsertWalk(t, node, segs, v) ==
  IF segs = <<>> THEN [t EXCEPT ![node] = v]
  ELSE LET child == FindChild(t, node, Head(segs)) IN
    IF child = NoNode
    THEN LET new == Append(node, Head(segs)) IN
         InsertWalk([n \in DOMAIN t \cup {new} |->
                       IF n \in DOMAIN t THEN t[n] ELSE Null],
                    new, Tail(segs), v)
    ELSE InsertWalk(t, child, Tail(segs), v)

RECURSIVE FirstWriteWalk(_, _, _, _)
FirstWriteWalk(t, node, segs, v) ==
  IF segs = <<>> THEN (IF t[node] = Null THEN [t EXCEPT ![node] = v] ELSE t)
  ELSE LET child == FindChild(t, node, Head(segs)) IN
    IF child = NoNode THEN InsertWalk(t, node, segs, v)
    ELSE FirstWriteWalk(t, child, Tail(segs), v)

\* insert(key, value), lines 39-54: a node per segment, created when
\* missing, and the value stored at the last one.
InsertLeavesOldValue(t, key, v) == FirstWriteWalk(t, Root, Split(key), v)
Insert(t, key, v) == InsertWalk(t, Root, Split(key), v)

RECURSIVE FindWalk(_, _, _)
FindWalk(t, node, segs) ==
  IF segs = <<>> THEN t[node]
  ELSE LET child == FindChild(t, node, Head(segs)) IN
    IF child = NoNode THEN Null ELSE FindWalk(t, child, Tail(segs))

\* find(key), lines 56-68.
Find(t, key) == FindWalk(t, Root, Split(key))

RECURSIVE PrefixWalk(_, _, _, _)
PrefixWalk(t, node, segs, lastValue) ==
  IF segs = <<>> THEN lastValue
  ELSE LET child == FindChild(t, node, Head(segs)) IN
    IF child = NoNode THEN lastValue
    ELSE PrefixWalk(t, child, Tail(segs),
                    IF t[child] # Null THEN t[child] ELSE lastValue)

RECURSIVE PrefixWalkStopsAtEmpty(_, _, _, _)
PrefixWalkStopsAtEmpty(t, node, segs, lastValue) ==
  IF segs = <<>> THEN lastValue
  ELSE LET child == FindChild(t, node, Head(segs)) IN
    IF child = NoNode \/ t[child] = Null THEN lastValue
    ELSE PrefixWalkStopsAtEmpty(t, child, Tail(segs), t[child])

\* findByLongestPrefix(key), lines 70-87: lastValue starts empty, the root's
\* own value is never read.
FindByLongestPrefixStopsAtEmpty(t, key) ==
  PrefixWalkStopsAtEmpty(t, Root, Split(key), Null)
FindByLongestPrefix(t, key) == PrefixWalk(t, Root, Split(key), Null)

RECURSIVE RemoveWalk(_, _, _, _)
\* The node the key leads to, or NoNode when a segment is missing.
RemoveWalk(t, node, segs, parent) ==
  IF segs = <<>> THEN <<node, parent>>
  ELSE LET child == FindChild(t, node, Head(segs)) IN
    IF child = NoNode THEN NoNode
    ELSE RemoveWalk(t, child, Tail(segs), node)

\* remove(key), lines 89-115: the value is cleared; a node left without
\* children is erased from its parent (for the empty key the node is the
\* root, and erase("") on its empty child map erases nothing).
RemoveErasesAlways(t, key) ==
  LET found == RemoveWalk(t, Root, Split(key), Root) IN
    IF found = NoNode THEN t
    ELSE LET node == found[1]
             cleared == [t EXCEPT ![node] = Null] IN
      IF node # Root
      THEN [n \in {m \in DOMAIN t :
                     ~(Len(m) >= Len(node) /\ SubSeq(m, 1, Len(node)) = node)}
              |-> cleared[n]]
      ELSE cleared
RemoveKeepsValue(t, key) ==
  LET found == RemoveWalk(t, Root, Split(key), Root) IN
    IF found = NoNode THEN t
    ELSE LET node == found[1] IN
      IF Children(t, node) = {} /\ node # Root
      THEN [n \in DOMAIN t \ {node} |-> t[n]]
      ELSE t
Remove(t, key) ==
  LET found == RemoveWalk(t, Root, Split(key), Root) IN
    IF found = NoNode THEN t
    ELSE LET node == found[1]
             cleared == [t EXCEPT ![node] = Null] IN
      IF Children(t, node) = {} /\ node # Root
      THEN [n \in DOMAIN t \ {node} |-> cleared[n]]
      ELSE cleared

TrieInit ==
  /\ trie = EmptyTrie
  /\ reg = [k \in Keys |-> Null]
  /\ lastRemoved = <<>>

\* What no action on the trie touches.
TrieFrame == UNCHANGED <<sinkVars, repoVars, logVars, extVars>>

Entries == {k \in Keys : reg[k] # Null}

\* insert(k, v) by the registered of the trie.
TrieInsert(k, v) ==
  /\ (k \in Entries \/ Cardinality(Entries) < MaxEntries)
  /\ trie' = Insert(trie, k, v)
  /\ reg' = [reg EXCEPT ![k] = v]
  /\ lastRemoved' = <<>>
  /\ TrieFrame

\* remove(k) by the registered of the trie, for a key present or not.
TrieRemove(k) ==
  /\ trie' = Remove(trie, k)
  /\ reg' = [reg EXCEPT ![k] = Null]
  /\ lastRemoved' = IF reg[k] # Null THEN <<k>> ELSE <<>>
  /\ TrieFrame

TrieNext ==
  \/ \E k \in Keys : \E v \in Vals : TrieInsert(k, v)
  \/ \E k \in Keys : TrieRemove(k)

-----------------------------------------------------------------------------
(* Repository: include/lfy/Repository.hpp, lines 79-140 *)
(*                                                                         *)
(* A Logger object is an entry of heap and its address the entry of        *)
(* Addresses at the same index: two pointers are the same instance exactly *)
(* when the addresses are equal.  The threads call getLogger and           *)
(* addLogger, and configure the loggers they have been handed.             *)

MaxGetCalls == 2
MaxConfigs  == 2

RepoPaths ==
  {<<>>, <<"a">>, <<"a", Dot, "a">>, <<"a", Dot, "a", Dot, "a">>}

Addresses == <<"L1", "L2", "L3", "L4">>

\* The settings the threads give to loggers of the registry.
RepoLevels     == {"Warn"}
RepoOutputters == {"s1"}
RepoGenerators == {"Level"}
RepoFlushers   == {"NeverFlush"}

\* The object a pointer refers to.
Deref(h, ptr) == h[CHOOSE i \in 1..Len(Addresses) : Addresses[i] = ptr]

DefaultLevel == "Info"

\* Logger(std::string name), Logger.hpp lines 527-528 and 536-543.
\* copiedFrom is not a member: it records the logger whose settings the
\* constructor arguments were read from.
NewLogger(name) ==
  [m_name |-> name, m_level |-> DefaultLevel, m_outputters |-> <<>>,
   m_headerGenerators |-> <<>>, m_flushApplier |-> "AlwaysFlush",
   copiedFrom |-> Null]

\* The six-argument constructor as getLogger calls it, lines 99-102: every
\* setting of the parent, under the new name.
InheritedLoggerAtDefaultLevel(parent, name) ==
  [parent EXCEPT !.m_name = name, !.m_level = DefaultLevel]
InheritedLogger(parent, name) == [parent EXCEPT !.m_name = name]

\* A setter of Logger (setLogLevel, addOutputter, addHeaderGenerator,
\* setFlusher) on the object at ptr: the member of that object changes.
ConfigureLinked(h, ptr, member, value) ==
  [i \in 1..Len(h) |->
     IF Addresses[i] = ptr \/ h[i].copiedFrom = ptr
     THEN [h[i] EXCEPT ![member] = value] ELSE h[i]]
Configure(h, ptr, member, value) ==
  [i \in 1..Len(h) |->
     IF Addresses[i] = ptr THEN [h[i] EXCEPT ![member] = value] ELSE h[i]]

RepoInit ==
  /\ m_loggers = EmptyTrie
  /\ repoMutex = Free
  /\ heap = <<>>
  /\ rpc = [t \in Threads |-> "idle"]
  /\ rarg = [t \in Threads |-> [path |-> <<>>, inheritFromParent |-> FALSE,
                                logger |-> Null, calls |-> 0]]
  /\ returned = {}
  /\ configured = 0
  /\ registered = [p \in RepoPaths |-> Null]

RepoFrame == UNCHANGED <<sinkVars, trieVars, logVars, extVars>>

\* std::lock_guard on Singleton::m_mutex, line 87.
RepoMutexAvailableNoExclusion(owner) == TRUE
RepoMutexAvailable(owner) == owner = Free

\* if (inheritFromParent), line 96.
InheritanceAlways(inheritFromParent) == TRUE
InheritanceRequested(inheritFromParent) == inheritFromParent

\* return under the lock_guard: the result is handed out, the mutex freed.
Return(t, logger) ==
  /\ returned' = returned \cup {<<rarg[t].path, logger>>}
  /\ repoMutex' = Free
  /\ rpc' = [rpc EXCEPT ![t] = "idle"]

\* getLogger(path, inheritFromParent) is entered and the mutex taken,
\* lines 84-87.
GetLoggerLock(t) ==
  /\ rpc[t] = "idle"
  /\ rarg[t].calls < MaxGetCalls
  /\ RepoMutexAvailable(repoMutex)
  /\ \E p \in RepoPaths : \E inh \in BOOLEAN :
       rarg' = [rarg EXCEPT ![t] = [path |-> p, inheritFromParent |-> inh,
                                    logger |-> Null, calls |-> @.calls + 1]]
  /\ repoMutex' = t
  /\ rpc' = [rpc EXCEPT ![t] = "g_find"]
  /\ UNCHANGED <<m_loggers, heap, returned, configured, registered>>
  /\ RepoFrame

\* The exact match, lines 90-92, and the branch on inheritFromParent,
\* line 96.
GetLoggerFind(t) ==
  /\ rpc[t] = "g_find"
  /\ LET logger == Find(m_loggers, rarg[t].path) IN
       IF logger # Null
       THEN Return(t, logger)
       ELSE /\ rpc' = [rpc EXCEPT ![t] =
                        IF InheritanceRequested(rarg[t].inheritFromParent)
                        THEN "g_inherit" ELSE "g_new"]
            /\ UNCHANGED <<returned, repoMutex>>
  /\ UNCHANGED <<m_loggers, heap, rarg, configured, registered>>
  /\ RepoFrame

\* The longest prefix match and the inherited logger, lines 97-105.
GetLoggerInherit(t) ==
  /\ rpc[t] = "g_inherit"
  /\ LET parentLogger == FindByLongestPrefix(m_loggers, rarg[t].path)
         inheritedLogger == Addresses[Len(heap) + 1] IN
       IF parentLogger # Null
       THEN /\ heap' = Append(heap,
                         [InheritedLogger(Deref(heap, parentLogger),
                                          rarg[t].path)
                            EXCEPT !.copiedFrom = parentLogger])
            /\ m_loggers' = Insert(m_loggers, rarg[t].path, inheritedLogger)
            /\ registered' =
                 [registered EXCEPT ![rarg[t].path] = inheritedLogger]
            /\ Return(t, inheritedLogger)
       ELSE /\ rpc' = [rpc EXCEPT ![t] = "g_new"]
            /\ UNCHANGED <<heap, m_loggers, returned, repoMutex, registered>>
  /\ UNCHANGED <<rarg, configured>>
  /\ RepoFrame

\* A new logger when none was found or inherited, lines 109-111.
GetLoggerNew(t) ==
  /\ rpc[t] = "g_new"
  /\ LET newLogger == Addresses[Len(heap) + 1] IN
       /\ heap' = Append(heap, NewLogger(rarg[t].path))
       /\ m_loggers' = Insert(m_loggers, rarg[t].path, newLogger)
       /\ registered' = [registered EXCEPT ![rarg[t].path] = newLogger]
       /\ Return(t, newLogger)
  /\ UNCHANGED <<rarg, configured>>
  /\ RepoFrame

\* The loggers a thread can hold a pointer to.
Held == {r[2] : r \in returned}

ConfigureStep(ptr, member, value) ==
  /\ configured < MaxConfigs
  /\ ptr \in Held
  /\ heap' = Configure(heap, ptr, member, value)
  /\ configured' = configured + 1
  /\ UNCHANGED <<m_loggers, repoMutex, rpc, rarg, returned, registered>>
  /\ RepoFrame

\* Logger::setLogLevel, Logger.hpp lines 482-485.
RepoSetLogLevel(ptr, level) ==
  /\ ptr \in Held
  /\ ConfigureStep(ptr, "m_level", level)

\* Logger::addOutputter, Logger.hpp lines 470-474.
RepoAddOutputter(ptr, o) ==
  /\ ptr \in Held
  /\ ConfigureStep(ptr, "m_outputters",
                   Append(Deref(heap, ptr).m_outputters, o))

\* Logger::addHeaderGenerator, Logger.hpp lines 476-480.
RepoAddHeaderGenerator(ptr, g) ==
  /\ ptr \in Held
  /\ ConfigureStep(ptr, "m_headerGenerators",
                   Append(Deref(heap, ptr).m_headerGenerators, g))

\* Logger::setFlusher, Logger.hpp lines 487-491.
RepoSetFlusher(ptr, f) ==
  /\ ptr \in Held
  /\ ConfigureStep(ptr, "m_flushApplier", f)

AddressSet == {Addresses[i] : i \in 1..Len(Addresses)}

\* addLogger(path, logger) is entered with a logger a getLogger call has
\* handed out, and the mutex taken, lines 116-119.
AddLoggerLock(t) ==
  /\ rpc[t] = "idle"
  /\ rarg[t].calls < MaxGetCalls
  /\ RepoMutexAvailable(repoMutex)
  /\ \E p \in RepoPaths : \E logger \in Held :
       rarg' = [rarg EXCEPT ![t] = [path |-> p, inheritFromParent |-> FALSE,
                                    logger |-> logger,
                                    calls |-> @.calls + 1]]
  /\ repoMutex' = t
  /\ rpc' = [rpc EXCEPT ![t] = "a_insert"]
  /\ UNCHANGED <<m_loggers, heap, returned, configured, registered>>
  /\ RepoFrame

\* self.m_loggers.insert(path, logger), line 121.
AddInsertIfAbsent(t, path, logger) ==
  IF Find(t, path) # Null THEN t ELSE Insert(t, path, logger)
AddInsert(t, path, logger) == Insert(t, path, logger)

\* The insert and the return of addLogger, lines 121-122.
AddLoggerInsert(t) ==
  /\ rpc[t] = "a_insert"
  /\ m_loggers' = AddInsert(m_loggers, rarg[t].path, rarg[t].logger)
  /\ registered' = [registered EXCEPT ![rarg[t].path] = rarg[t].logger]
  /\ repoMutex' = Free
  /\ rpc' = [rpc EXCEPT ![t] = "idle"]
  /\ UNCHANGED <<heap, rarg, returned, configured>>
  /\ RepoFrame

RepoAddNext ==
  \/ \E t \in Threads : GetLoggerLock(t)
  \/ \E t \in Threads : GetLoggerFind(t)
  \/ \E t \in Threads : GetLoggerInherit(t)
  \/ \E t \in Threads : GetLoggerNew(t)
  \/ \E t \in Threads : AddLoggerLock(t)
  \/ \E t \in Threads : AddLoggerInsert(t)

RepoNext ==
  \/ \E t \in Threads : GetLoggerLock(t)
  \/ \E t \in Threads : GetLoggerFind(t)
  \/ \E t \in Threads : GetLoggerInherit(t)
  \/ \E t \in Threads : GetLoggerNew(t)
  \/ \E ptr \in AddressSet : \E level \in RepoLevels :
       RepoSetLogLevel(ptr, level)
  \/ \E ptr \in AddressSet : \E o \in RepoOutputters :
       RepoAddOutputter(ptr, o)
  \/ \E ptr \in AddressSet : \E g \in RepoGenerators :
       RepoAddHeaderGenerator(ptr, g)
  \/ \E ptr \in AddressSet : \E f \in RepoFlushers : RepoSetFlusher(ptr, f)

-----------------------------------------------------------------------------
(* Logger: include/lfy/Logger.hpp, lines 359-543 (the latest revision) *)
(*                                                                         *)
(* One Logger, used by one thread, with sinks of the FileOutputter kind.   *)
(* A sink is the record of its buffered bytes (pending), the bytes its     *)
(* file has received, m_lastFlush, and the number of times its mutex has   *)
(* been taken (acquired).                                                  *)

LogCap        == 10
MaxLogCalls   == 2
MaxOutputters == 2
MaxHeaders    == 1
MaxClock      == 1
FlushThreshold == 1

SinkIds  == {"s1", "s2"}
Levels   == <<"Debug", "Info", "Warn", "Error">>
Flushers == {"NeverFlush", "AlwaysFlush", "TimeThresholdFlush"}
HeaderGenerators == {"Level", "LoggerName"}
LoggerNameChars == <<"n">>
Texts    == {<<"x">>, <<"x", "y", "z">>}

\* enum class LogLevel { Debug = 0, Info = 1, Warn = 2, Error = 3 }.
LevelNum(l) == (CHOOSE i \in 1..Len(Levels) : Levels[i] = l) - 1

\* logLevelToString.
LogLevelToString(l) ==
  CASE l = "Debug" -> <<"D", "E", "B", "U", "G">>
    [] l = "Info"  -> <<"I", "N", "F", "O">>
    [] l = "Warn"  -> <<"W", "A", "R", "N">>
    [] l = "Error" -> <<"E", "R", "R", "O", "R">>

\* headergen::Level and headergen::LoggerName applied to the meta data of
\* a call.
Header(generator, name, level) ==
  IF generator = "Level" THEN LogLevelToString(level) ELSE name

\* LogFormatter::format: "[header] " for every generator in order, then
\* the formatted text.
RECURSIVE Format(_, _, _, _)
Format(name, level, headers, text) ==
  IF headers = <<>> THEN text
  ELSE <<"[">> \o Header(Head(headers), name, level) \o <<"]", " ">>
         \o Format(name, level, Tail(headers), text)

\* The early return of debug/info/warn/error: if (m_level > LogLevel::X).
DropsReversed(m_level, level) == LevelNum(m_level) < LevelNum(level)
Drops(m_level, level) == LevelNum(m_level) > LevelNum(level)

\* A flush that writes the buffer and does not reset the cursor.
SinkFlushKeepsPending(s, now) ==
  LET locked == [s EXCEPT !.acquired = @ + 1] IN
    IF Len(s.pending) = 0 THEN locked
    ELSE [locked EXCEPT !.file = Write(@, s.pending), !.m_lastFlush = now]

\* FileOutputter::flush() on a sink record.
SinkFlush(s, now) ==
  LET locked == [s EXCEPT !.acquired = @ + 1] IN
    IF Len(s.pending) = 0 THEN locked
    ELSE [locked EXCEPT !.file = Write(@, s.pending), !.pending = <<>>,
                        !.m_lastFlush = now]

\* FileOutputter::output(message) on a sink record.
SinkOutput(s, message, now) ==
  LET locked == [s EXCEPT !.acquired = @ + 1]
      room == IF NeedsFlush(Len(locked.pending), Len(message), LogCap)
                   /\ Len(locked.pending) # 0
              THEN [locked EXCEPT !.file = Write(@, locked.pending),
                                  !.pending = <<>>, !.m_lastFlush = now]
              ELSE locked IN
    IF IsOversized(Len(message), LogCap)
    THEN [room EXCEPT !.file = Write(Write(@, message), <<NL>>),
                      !.pending = <<>>, !.m_lastFlush = now]
    ELSE [room EXCEPT !.pending = @ \o message \o <<NL>>]

\* The flushers: NeverFlush, AlwaysFlush, TimeThresholdFlush (which reads
\* lastFlush() under the sink's mutex).
ApplyFlusher(flusher, s, now) ==
  CASE flusher = "NeverFlush" -> s
    [] flusher = "AlwaysFlush" -> SinkFlush(s, now)
    [] flusher = "TimeThresholdFlush" ->
         LET read == [s EXCEPT !.acquired = @ + 1] IN
           IF now - s.m_lastFlush >= FlushThreshold
           THEN SinkFlush(read, now) ELSE read

\* Logger::log(message): output, then the flusher, sink by sink.
RECURSIVE Log(_, _, _, _, _)
Log(ss, outputters, flusher, message, now) ==
  IF outputters = <<>> THEN ss
  ELSE LET o == Head(outputters) IN
    Log([ss EXCEPT ![o] = ApplyFlusher(flusher,
                                       SinkOutput(ss[o], message, now), now)],
        Tail(outputters), flusher, message, now)

LogInit ==
  /\ lg = [m_name |-> LoggerNameChars, m_level |-> "Info",
           m_outputters |-> <<>>, m_headerGenerators |-> <<>>,
           m_flushApplier |-> "AlwaysFlush"]
  /\ sinks = [s \in SinkIds |->
               [pending |-> <<>>, file |-> <<>>, m_lastFlush |-> 0,
                acquired |-> 0]]
  /\ clock = 0
  /\ lastCall = [n |-> 0, level |-> "Debug", text |-> <<>>]

LogFrame == UNCHANGED <<sinkVars, trieVars, repoVars, extVars>>

\* debug / info / warn / error (level) with a text.
Call(level, text) ==
  /\ lastCall.n < MaxLogCalls
  /\ lastCall' = [n |-> lastCall.n + 1, level |-> level, text |-> text]
  /\ IF Drops(lg.m_level, level)
     THEN UNCHANGED sinks
     ELSE sinks' = Log(sinks, lg.m_outputters, lg.m_flushApplier,
                       Format(lg.m_name, level, lg.m_headerGenerators, text),
                       clock)
  /\ UNCHANGED <<lg, clock>>
  /\ LogFrame

SetLogLevel(level) ==
  /\ lg' = [lg EXCEPT !.m_level = level]
  /\ UNCHANGED <<sinks, clock, lastCall>>
  /\ LogFrame

AddOutputter(o) ==
  /\ Len(lg.m_outputters) < MaxOutputters
  /\ lg' = [lg EXCEPT !.m_outputters = Append(@, o)]
  /\ UNCHANGED <<sinks, clock, lastCall>>
  /\ LogFrame

AddHeaderGenerator(g) ==
  /\ Len(lg.m_headerGenerators) < MaxHeaders
  /\ lg' = [lg EXCEPT !.m_headerGenerators = Append(@, g)]
  /\ UNCHANGED <<sinks, clock, lastCall>>
  /\ LogFrame

SetFlusher(f) ==
  /\ lg' = [lg EXCEPT !.m_flushApplier = f]
  /\ UNCHANGED <<sinks, clock, lastCall>>
  /\ LogFrame

Tick ==
  /\ clock < MaxClock
  /\ clock' = clock + 1
  /\ UNCHANGED <<lg, sinks, lastCall>>
  /\ LogFrame

LogNext ==
  \/ \E level \in {Levels[i] : i \in 1..Len(Levels)} :
       \E text \in Texts : Call(level, text)
  \/ \E level \in {Levels[i] : i \in 1..Len(Levels)} : SetLogLevel(level)
  \/ \E o \in SinkIds : AddOutputter(o)
  \/ \E g \in HeaderGenerators : AddHeaderGenerator(g)
  \/ \E f \in Flushers : SetFlusher(f)
  \/ Tick

-----------------------------------------------------------------------------
(* The flushers side by side: Logger.hpp lines 359-380 and 423-428 *)
(*                                                                         *)
(* One sink per flusher, named by it.  Every call is logged to each sink   *)
(* under that sink's flusher, as three loggers with the same settings but  *)
(* different flushers would; flush() is also called on the sinks directly. *)

MaxFlushCalls == 2

FlushInit ==
  /\ lg = [m_name |-> LoggerNameChars, m_level |-> "Info",
           m_outputters |-> <<>>, m_headerGenerators |-> <<>>,
           m_flushApplier |-> "AlwaysFlush"]
  /\ sinks = [f \in Flushers |->
               [pending |-> <<>>, file |-> <<>>, m_lastFlush |-> 0,
                acquired |-> 0]]
  /\ clock = 0
  /\ lastCall = [n |-> 0, level |-> "Debug", text |-> <<>>, flushes |-> 0]

\* debug / info / warn / error (level) with a text on each of the loggers.
FeedCall(level, text) ==
  /\ lastCall.n < MaxLogCalls
  /\ lastCall' = [lastCall EXCEPT !.n = @ + 1, !.level = level,
                                  !.text = text]
  /\ IF Drops(lg.m_level, level)
     THEN UNCHANGED sinks
     ELSE sinks' =
            [f \in Flushers |->
               Log(sinks, <<f>>, f,
                   Format(lg.m_name, level, lg.m_headerGenerators, text),
                   clock)[f]]
  /\ UNCHANGED <<lg, clock>>
  /\ LogFrame

\* flush() called on the sink of flusher f.
FlushCall(f) ==
  /\ lastCall.flushes < MaxFlushCalls
  /\ lastCall' = [lastCall EXCEPT !.flushes = @ + 1]
  /\ sinks' = [sinks EXCEPT ![f] = SinkFlush(@, clock)]
  /\ UNCHANGED <<lg, clock>>
  /\ LogFrame

FlushNext ==
  \/ \E level \in {Levels[i] : i \in 1..Len(Levels)} :
       \E text \in Texts : FeedCall(level, text)
  \/ \E f \in Flushers : FlushCall(f)
  \/ \E level \in {Levels[i] : i \in 1..Len(Levels)} : SetLogLevel(level)
  \/ \E g \in HeaderGenerators : AddHeaderGenerator(g)
  \/ Tick

-----------------------------------------------------------------------------
(* Logger::log over sinks whose writes fail: Logger.hpp lines 423-428 *)
(*                                                                         *)
(* For every call the environment says, sink by sink, what becomes of a    *)
(* write to the backing resource: it gets through, it fails inside         *)
(* details::write, which drops the result of fwrite, or it fails inside an *)
(* Outputter that writes with write_line, which throws.                    *)

SinkFaults == {"none", "dropped", "throws"}

Range(f) == {f[i] : i \in DOMAIN f}

\* The loop of Logger::log, lines 424-427.  done is the set of sinks
\* output() has been called on, failed the sinks whose write failed.
RECURSIVE LogWithFaults(_, _, _, _, _, _, _, _)
LogWithFaults(ss, outputters, flusher, message, now, fault, done, failed) ==
  IF outputters = <<>>
  THEN [sinks |-> ss, attempted |-> done, failed |-> failed,
        reported |-> {}, result |-> "returned"]
  ELSE LET o == Head(outputters)
           good == ApplyFlusher(flusher, SinkOutput(ss[o], message, now), now)
           writes == good.file # ss[o].file
       IN
    IF writes /\ fault[o] = "throws"
    THEN [sinks |-> ss, attempted |-> done \cup {o},
          failed |-> failed \cup {o}, reported |-> {o}, result |-> "thrown"]
    ELSE IF writes /\ fault[o] = "dropped"
    THEN LogWithFaults([ss EXCEPT ![o] = [good EXCEPT !.file = ss[o].file]],
                       Tail(outputters), flusher, message, now, fault,
                       done \cup {o}, failed \cup {o})
    ELSE LogWithFaults([ss EXCEPT ![o] = good],
                       Tail(outputters), flusher, message, now, fault,
                       done \cup {o}, failed)

FanoutInit ==
  /\ lg = [m_name |-> LoggerNameChars, m_level |-> "Info",
           m_outputters |-> <<>>, m_headerGenerators |-> <<>>,
           m_flushApplier |-> "AlwaysFlush"]
  /\ sinks = [s \in SinkIds |->
               [pending |-> <<>>, file |-> <<>>, m_lastFlush |-> 0,
                acquired |-> 0]]
  /\ clock = 0
  /\ lastCall = [n |-> 0, outputters |-> <<>>, attempted |-> {},
                 failed |-> {}, reported |-> {}, result |-> "none"]

\* info(text) while the environment treats the sinks' writes as fault says.
FaultyCall(text, fault) ==
  /\ lastCall.n < MaxLogCalls
  /\ LET done == LogWithFaults(sinks, lg.m_outputters, lg.m_flushApplier,
                               Format(lg.m_name, "Info",
                                      lg.m_headerGenerators, text),
                               clock, fault, {}, {}) IN
       /\ sinks' = done.sinks
       /\ lastCall' = [n |-> lastCall.n + 1, outputters |-> lg.m_outputters,
                       attempted |-> done.attempted, failed |-> done.failed,
                       reported |-> done.reported, result |-> done.result]
  /\ UNCHANGED <<lg, clock>>
  /\ LogFrame

FanoutNext ==
  \/ \E text \in Texts : \E fault \in [SinkIds -> SinkFaults] :
       FaultyCall(text, fault)
  \/ \E o \in SinkIds : AddOutputter(o)
  \/ \E f \in Flushers : SetFlusher(f)
  \/ Tick

-----------------------------------------------------------------------------
(* One Logger used by two threads: Logger.hpp lines 423-491 *)
(*                                                                         *)
(* Each thread logs or configures.  A log call renders the line from       *)
(* m_headerGenerators, then walks m_outputters with the iterators of its   *)
(* range-for, calling m_flushApplier after each output(); the setters take *)
(* m_mutex.  A vector or std::function written while another thread reads *)
(* it is a data race: what the reader sees afterwards is any sink, or      *)
(* nothing usable at all.                                                  *)

MaxHotCalls   == 2
MaxHotConfigs == 2
Garbage == "garbage"

\* The members a thread at pc is reading in place: the logging path takes
\* neither m_mutex nor a copy of them.
Reading(at) ==
  CASE at = "l_format" -> {"m_headerGenerators"}
    [] at = "l_loop"   -> {"m_outputters", "m_flushApplier"}
    [] OTHER           -> {}

HotInit ==
  /\ lk = [m_mutex |-> Free, m_outputters |-> <<"s1">>,
           m_headerGenerators |-> <<>>, m_flushApplier |-> "AlwaysFlush",
           calls |-> 0, configs |-> 0, written |-> Null]
  /\ hpc = [t \in Threads |->
              [pc |-> "idle", it |-> 0, end |-> 0, raced |-> {},
               seen |-> <<>>, op |-> <<>>]]

HotFrame ==
  UNCHANGED <<sinkVars, trieVars, repoVars, logVars, fileVars, timeVars,
              nativeVars, mapVars, lockVars>>

\* info(...): the level passes (lines 441-442); next is format().
LogBegin(t) ==
  /\ hpc[t].pc = "idle" /\ lk.calls < MaxHotCalls
  /\ hpc' = [hpc EXCEPT ![t] = [@ EXCEPT !.pc = "l_format", !.raced = {},
                                         !.seen = <<>>]]
  /\ lk' = [lk EXCEPT !.calls = @ + 1, !.written = Null]
  /\ HotFrame

\* m_formatter.format(metaData, m_headerGenerators, ...), line 445, then
\* the begin() and end() of the range-for over m_outputters, line 424.
LogFormat(t) ==
  /\ hpc[t].pc = "l_format"
  /\ hpc' = [hpc EXCEPT ![t] = [@ EXCEPT !.pc = "l_loop", !.it = 1,
                                  !.end = Len(lk.m_outputters)]]
  /\ lk' = [lk EXCEPT !.written = Null]
  /\ HotFrame

\* One round of the loop, lines 425-426: *it, output(message), the flusher.
\* After a write to the vector during the walk the iterator is invalid.
LogOutput(t) ==
  /\ hpc[t].pc = "l_loop" /\ hpc[t].it <= hpc[t].end
  /\ \E o \in (IF "m_outputters" \in hpc[t].raced
               THEN SinkIds \cup {Garbage}
               ELSE {lk.m_outputters[hpc[t].it]}) :
       hpc' = [hpc EXCEPT ![t] = [@ EXCEPT !.it = @ + 1,
                                            !.seen = Append(@, o)]]
  /\ lk' = [lk EXCEPT !.written = Null]
  /\ HotFrame

\* it == end: the call returns.
LogEnd(t) ==
  /\ hpc[t].pc = "l_loop" /\ hpc[t].it > hpc[t].end
  /\ hpc' = [hpc EXCEPT ![t] = [@ EXCEPT !.pc = "idle"]]
  /\ lk' = [lk EXCEPT !.written = Null]
  /\ HotFrame

\* addOutputter / addHeaderGenerator / setFlusher: std::lock_guard on
\* m_mutex, lines 471, 477, 488.
CfgLock(t, member, value) ==
  /\ hpc[t].pc = "idle" /\ lk.configs < MaxHotConfigs
  /\ lk.m_mutex = Free
  /\ lk' = [lk EXCEPT !.m_mutex = t, !.configs = @ + 1, !.written = Null]
  /\ hpc' = [hpc EXCEPT ![t] = [@ EXCEPT !.pc = "c_write",
                                          !.op = <<member, value>>]]
  /\ HotFrame

\* push_back on the list or assignment of the flusher, lines 472, 478, 489.
CfgWrite(t) ==
  /\ hpc[t].pc = "c_write"
  /\ LET member == hpc[t].op[1]
         value == hpc[t].op[2] IN
       /\ lk' = [lk EXCEPT
            ![member] = IF member = "m_flushApplier" THEN value
                        ELSE Append(@, value),
            !.written = member]
       /\ hpc' = [u \in Threads |->
            IF u = t THEN [hpc[t] EXCEPT !.pc = "c_unlock"]
            ELSE IF member \in Reading(hpc[u].pc)
                 THEN [hpc[u] EXCEPT !.raced = @ \cup {member}]
                 ELSE hpc[u]]
  /\ HotFrame

\* The lock_guard's destructor.
CfgUnlock(t) ==
  /\ hpc[t].pc = "c_unlock"
  /\ lk' = [lk EXCEPT !.m_mutex = Free, !.written = Null]
  /\ hpc' = [hpc EXCEPT ![t] = [@ EXCEPT !.pc = "idle"]]
  /\ HotFrame

HotNext ==
  \E t \in Threads :
    \/ LogBegin(t) \/ LogFormat(t) \/ LogOutput(t) \/ LogEnd(t)
    \/ \E o \in SinkIds : CfgLock(t, "m_outputters", o)
    \/ \E g \in HeaderGenerators : CfgLock(t, "m_headerGenerators", g)
    \/ \E f \in Flushers : CfgLock(t, "m_flushApplier", f)
    \/ CfgWrite(t) \/ CfgUnlock(t)

-----------------------------------------------------------------------------
(* FileOutputter<N> on a path: include/lfy/Outputter.hpp lines 131-213 *)
(*                                                                         *)
(* One FileOutputter is constructed on a path the environment prepared and *)
(* then used by one caller.  The path exists or not and may be opened for  *)
(* append or not; every fwrite on the unbuffered stream gets through the   *)
(* bytes the environment accepts, all of them or fewer.                    *)

FileCap      == 4
MaxFileCalls == 3
PreContents  == {<<>>, <<"p", NL>>}
FileMsgs     == {<<"x">>, <<"y", "y">>, <<"z", "z", "z", "z">>}
Whole        == FileCap + 1
Accepts      == {0, 1, Whole}

Min(a, b) == IF a <= b THEN a ELSE b

\* std::fopen(path, mode): no stream when the path may not be opened; else
\* mode "a" creates a missing file and keeps the bytes of an existing one,
\* mode "w" leaves an empty file.
FopenTruncating(d, mode) ==
  IF ~d.permitted THEN [handle |-> Null, disk |-> d]
  ELSE [handle |-> "open", disk |-> [d EXCEPT !.exists = TRUE, !.bytes = <<>>]]
Fopen(d, mode) ==
  IF ~d.permitted THEN [handle |-> Null, disk |-> d]
  ELSE [handle |-> "open",
        disk |-> [d EXCEPT !.exists = TRUE,
                           !.bytes = IF d.exists /\ mode = "a" THEN @
                                     ELSE <<>>]]

\* The message of the runtime_error thrown by init() when m_file is null
\* (lines 194-198).
FailedToOpen       == "FileOutputter: Failed to open file "
NotEnoughRights    == "FileOutputter: Failed to open file (Not enough acess rights)"
FailedToSetBufMode == "FileOutputter: Failed to set buffer mode for "
OpenErrorPlain(exists) == FailedToOpen
OpenError(exists) == IF exists THEN NotEnoughRights ELSE FailedToOpen

\* fwrite_unlocked(begin, 1, count, m_file) on a stream opened "a": the
\* accepted bytes land at the end of the file.
Fwrite(bytes, accepted) == SubSeq(bytes, 1, Min(accepted, Len(bytes)))
IsShort(bytes, accepted) == accepted < Len(bytes)

FileInit ==
  /\ disk \in { [exists |-> e, bytes |-> b, permitted |-> a] :
                  e \in BOOLEAN, b \in PreContents, a \in BOOLEAN }
  /\ ~disk.exists => disk.bytes = <<>>
  /\ fo = [state |-> "none", error |-> "", m_buffer |-> <<>>,
           atOpen |-> <<>>, existed |-> FALSE, lines |-> <<>>, calls |-> 0,
           short |-> FALSE, everShort |-> FALSE, outcome |-> "none"]

FileFrame ==
  UNCHANGED <<sinkVars, trieVars, repoVars, logVars, hotVars, timeVars,
              nativeVars, mapVars, lockVars>>

\* FileOutputter(filePath), lines 134-139, with init(), lines 193-203.
Construct(setvbufOk) ==
  /\ fo.state = "none"
  /\ LET opened == Fopen(disk, "a") IN
       /\ disk' = opened.disk
       /\ fo' = [fo EXCEPT
            !.atOpen = disk.bytes,
            !.existed = disk.exists,
            !.state = IF opened.handle = Null \/ ~setvbufOk
                      THEN "thrown" ELSE "ok",
            !.error = IF opened.handle = Null THEN OpenError(opened.disk.exists)
                      ELSE IF ~setvbufOk THEN FailedToSetBufMode ELSE ""]
  /\ FileFrame

\* output(message), lines 150-170, each details::write with what the
\* environment accepts of it; the result of fwrite is not looked at.
FileOutput(message, a1, a2, a3) ==
  /\ fo.state = "ok" /\ fo.calls < MaxFileCalls
  /\ LET full == NeedsFlush(Len(fo.m_buffer), Len(message), FileCap)
                   /\ Len(fo.m_buffer) # 0
         big == IsOversized(Len(message), FileCap)
         flushed == IF full THEN disk.bytes \o Fwrite(fo.m_buffer, a1)
                    ELSE disk.bytes
         room == IF full THEN <<>> ELSE fo.m_buffer
         short == \/ full /\ IsShort(fo.m_buffer, a1)
                  \/ big /\ (IsShort(message, a2) \/ IsShort(<<NL>>, a3))
     IN
       /\ disk' = [disk EXCEPT !.bytes =
                     IF big THEN flushed \o Fwrite(message, a2)
                                         \o Fwrite(<<NL>>, a3)
                     ELSE flushed]
       /\ fo' = [fo EXCEPT
            !.m_buffer = IF big THEN <<>> ELSE room \o message \o <<NL>>,
            !.lines = Append(@, message),
            !.calls = @ + 1,
            !.short = short,
            !.everShort = @ \/ short,
            !.outcome = "returned"]
  /\ FileFrame

\* flush(), lines 178-191.
FileFlush(a1) ==
  /\ fo.state = "ok" /\ fo.calls < MaxFileCalls
  /\ LET short == Len(fo.m_buffer) # 0 /\ IsShort(fo.m_buffer, a1) IN
       /\ disk' = [disk EXCEPT !.bytes = @ \o Fwrite(fo.m_buffer, a1)]
       /\ fo' = [fo EXCEPT
            !.m_buffer = <<>>,
            !.calls = @ + 1,
            !.short = short,
            !.everShort = @ \/ short,
            !.outcome = "returned"]
  /\ FileFrame

FileNext ==
  \/ \E setvbufOk \in BOOLEAN : Construct(setvbufOk)
  \/ \E message \in FileMsgs : \E a1, a2, a3 \in Accepts :
       FileOutput(message, a1, a2, a3)
  \/ \E a1 \in Accepts : FileFlush(a1)

-----------------------------------------------------------------------------
(* headergen::_InternalTime on one thread: Logger.hpp lines 310-342 *)
(*                                                                         *)
(* Time is counted in units of half a second.  The wall clock advances,    *)
(* may be set back, and the zone's offset may change; every call stamps    *)
(* its message with the wall clock and renders it.  A rendered time is     *)
(* the record of the second shown and of the text put for %z.              *)

UnitsPerSecond == 2
StartSecond    == 10
MaxSecond      == 21
MaxSetBacks    == 1
SetBackSeconds == 2
timeStampRefreshInterval      == 1 * UnitsPerSecond
timeZoneOffsetRefreshInterval == 10 * UnitsPerSecond
Epoch == 0

TimeTypes == {"Local", "Utc"}
Fmts      == {"%S%z"}
Platforms == {"_WIN32", "__linux__"}
ZoneOffsets == {60, 120}
Indeterminate == -1

\* std::chrono::floor<std::chrono::seconds>(metaData.m_timestamp)
FloorSeconds(timestamp) == timestamp - (timestamp % UnitsPerSecond)

\* details::toPlatformSpecificTm(t, timeType), lines 224-243: the calendar
\* fields of t.  The __linux__ branch fills tm and has no return statement,
\* so what the caller gets there is not defined: the fields, or anything.
ToPlatformSpecificTm(t, timeType, platform, zone) ==
  LET tm == [sec |-> t \div UnitsPerSecond,
             gmtoff |-> IF timeType = "Utc" THEN 0 ELSE zone] IN
    IF platform = "_WIN32" THEN {tm}
    ELSE {tm, [sec |-> Indeterminate, gmtoff |-> Indeterminate]}

\* details::getTimeZoneOffsetInMinutes(tm), lines 259-272.
GetTimeZoneOffsetInMinutes(tm, platform, zone) ==
  IF platform = "_WIN32" THEN zone ELSE tm.gmtoff

\* details::toNumericUtcOffset(offsetInMinutes), lines 247-257.
ToNumericUtcOffset(offsetInMinutes) ==
  IF offsetInMinutes = 0 THEN <<"+", 0, 0>>
  ELSE LET abs == IF offsetInMinutes >= 0 THEN offsetInMinutes
                  ELSE 0 - offsetInMinutes IN
         <<IF offsetInMinutes >= 0 THEN "+" ELSE "-", abs \div 60, abs % 60>>

\* details::toFormattedTime(fmt, tm, timeZoneOffset), lines 274-288: %z is
\* replaced by the numeric offset, the rest is put_time of tm.
ToFormattedTime(fmt, tm, timeZoneOffset) ==
  [sec |-> tm.sec,
   z |-> IF fmt = "%S%z" THEN ToNumericUtcOffset(timeZoneOffset) ELSE <<>>]

\* A cache with one entry per format, whatever the time type.
CacheKeyFmtOnly(timeType, fmt) == <<"Local", fmt>>

\* cachedTimes[timeType][fmt], line 323.
CacheKey(timeType, fmt) == <<timeType, fmt>>

\* now - last < timeStampRefreshInterval, line 329.
CacheHit(now, last) == now - last < timeStampRefreshInterval

\* now - last >= timeZoneOffsetRefreshInterval, line 335, last being the
\* time point of the cache entry of this (timeType, fmt).
OffsetDue(timeType, now, last) ==
  timeType = "Local" /\ now - last >= timeZoneOffsetRefreshInterval

TimeInit ==
  /\ cachedTimes = [k \in TimeTypes \X Fmts |->
                      [lastFormattedTime |-> <<>>, lastTimePoint |-> Epoch]]
  /\ cachedLocalTimeZoneOffset = 0
  /\ tenv \in { [wall |-> StartSecond * UnitsPerSecond, zone |-> 60,
                 platform |-> p, setBacks |-> 0, calls |-> 0,
                 resolvedAt |-> Epoch, hit |-> FALSE, resolved |-> FALSE,
                 timeType |-> "Utc", fmt |-> "%S%z",
                 rendered |-> [k \in TimeTypes \X Fmts |-> <<>>]] :
              p \in Platforms }

TimeFrame ==
  UNCHANGED <<sinkVars, trieVars, repoVars, logVars, fileVars, hotVars,
              nativeVars, mapVars, lockVars>>

\* The wall clock advances by half a second.
WallTick ==
  /\ tenv.wall < MaxSecond * UnitsPerSecond
  /\ tenv' = [tenv EXCEPT !.wall = @ + 1]
  /\ UNCHANGED <<cachedTimes, cachedLocalTimeZoneOffset>>
  /\ TimeFrame

\* The wall clock is set back (system_clock is not steady).
WallSetBack ==
  /\ tenv.setBacks < MaxSetBacks
  /\ tenv.wall - SetBackSeconds * UnitsPerSecond
       >= StartSecond * UnitsPerSecond
  /\ tenv' = [tenv EXCEPT !.wall = @ - SetBackSeconds * UnitsPerSecond,
                          !.setBacks = @ + 1]
  /\ UNCHANGED <<cachedTimes, cachedLocalTimeZoneOffset>>
  /\ TimeFrame

\* The local zone's offset changes (daylight saving begins).
ZoneChange(zone) ==
  /\ zone > tenv.zone
  /\ tenv' = [tenv EXCEPT !.zone = zone]
  /\ UNCHANGED <<cachedTimes, cachedLocalTimeZoneOffset>>
  /\ TimeFrame

\* headergen::Time(timeType, fmt) applied to the meta data of a message
\* stamped with the wall clock: _InternalTime, lines 310-342.
InternalTime(fmt, timeType) ==
  LET now  == FloorSeconds(tenv.wall)
      last == cachedTimes[CacheKey(timeType, fmt)].lastTimePoint IN
    /\ IF CacheHit(now, last)
       THEN /\ UNCHANGED <<cachedTimes, cachedLocalTimeZoneOffset>>
            /\ tenv' = [tenv EXCEPT
                 !.calls = 1 - @, !.hit = TRUE, !.resolved = FALSE,
                 !.timeType = timeType, !.fmt = fmt]
       ELSE \E tm \in ToPlatformSpecificTm(now, timeType, tenv.platform,
                                           tenv.zone) :
              LET due == OffsetDue(timeType, now, last)
                  offset == IF due
                            THEN GetTimeZoneOffsetInMinutes(
                                   tm, tenv.platform, tenv.zone)
                            ELSE cachedLocalTimeZoneOffset
                  formattedTime ==
                    ToFormattedTime(fmt, tm,
                                    IF timeType = "Local" THEN offset ELSE 0)
              IN
                /\ cachedLocalTimeZoneOffset' = offset
                /\ cachedTimes' = [cachedTimes EXCEPT
                     ![CacheKey(timeType, fmt)] =
                     [lastFormattedTime |-> formattedTime,
                      lastTimePoint |-> now]]
                /\ tenv' = [tenv EXCEPT
                     !.calls = 1 - @, !.hit = FALSE, !.resolved = due,
                     !.resolvedAt = IF due THEN now ELSE @,
                     !.timeType = timeType, !.fmt = fmt,
                     !.rendered[<<timeType, fmt>>] = formattedTime]
    /\ TimeFrame

\* The formats of two generators of one thread, and the last seconds of
\* the clock's range.
KeyFmts    == {"%S%z", "%S"}
KeySeconds == 1

TimeKeysInit ==
  /\ cachedTimes = [k \in TimeTypes \X KeyFmts |->
                      [lastFormattedTime |-> <<>>, lastTimePoint |-> Epoch]]
  /\ cachedLocalTimeZoneOffset = 0
  /\ tenv \in { [wall |-> (MaxSecond - KeySeconds) * UnitsPerSecond,
                 zone |-> 60, platform |-> p, setBacks |-> MaxSetBacks,
                 calls |-> 0, resolvedAt |-> Epoch, hit |-> FALSE,
                 resolved |-> FALSE, timeType |-> "Utc", fmt |-> "%S%z",
                 rendered |-> [k \in TimeTypes \X KeyFmts |-> <<>>]] :
              p \in Platforms }

TimeKeysNext ==
  \/ WallTick
  \/ \E zone \in ZoneOffsets : ZoneChange(zone)
  \/ \E fmt \in KeyFmts : \E timeType \in TimeTypes :
       InternalTime(fmt, timeType)

TimeNext ==
  \/ WallTick
  \/ WallSetBack
  \/ \E zone \in ZoneOffsets : ZoneChange(zone)
  \/ \E fmt \in Fmts : \E timeType \in TimeTypes : InternalTime(fmt, timeType)

-----------------------------------------------------------------------------
(* LogFormatter::format, step by step: Logger.hpp lines 386-412, 430-468 *)
(*                                                                         *)
(* A call of debug/info/warn/error constructs the meta data, runs the loop *)
(* of format() over m_headerGenerators one generator at a time, appends    *)
(* the text and hands the result to log().  The clock may advance while    *)
(* the loop runs.  The logger has the sink s1 and the NeverFlush flusher.  *)

MaxFormatHeaders == 3
MaxFormatCalls   == 1
MaxFormatClock   == 2

FormatGenerators == {"Level", "LoggerName", "Time"}
Digits == <<"0", "1", "2", "3">>

\* LogMetaData{getName(), level}: the members are const, m_timestamp is
\* system_clock::now() at construction.
LogMetaData(name, level, now) ==
  [m_loggerName |-> name, m_level |-> level, m_timestamp |-> now]

\* headergen::Level, headergen::LoggerName and headergen::Time applied to
\* the meta data; the time is rendered as "t" and the digit of the clock.
Generate(generator, metaData) ==
  CASE generator = "Level" -> LogLevelToString(metaData.m_level)
    [] generator = "LoggerName" -> metaData.m_loggerName
    [] generator = "Time" -> <<"t", Digits[metaData.m_timestamp + 1]>>

\* A loop body that puts the header in front of the result.
PrependHeader(result, header) == <<"[">> \o header \o <<"]", " ">> \o result

\* result.push_back('['); result.append(header); result.append("] ");
AppendHeader(result, header) == result \o <<"[">> \o header \o <<"]", " ">>

FormatInit ==
  /\ lg = [m_name |-> LoggerNameChars, m_level |-> "Info",
           m_outputters |-> <<"s1">>, m_headerGenerators |-> <<>>,
           m_flushApplier |-> "NeverFlush"]
  /\ sinks = [s \in {"s1"} |->
               [pending |-> <<>>, file |-> <<>>, m_lastFlush |-> 0,
                acquired |-> 0]]
  /\ clock = 0
  /\ lastCall = [n |-> 0, pc |-> "idle", metaData |-> <<>>, i |-> 0,
                 result |-> <<>>, level |-> "Debug", text |-> <<>>,
                 at |-> 0, dropped |-> FALSE, line |-> <<>>]

\* if (m_level > LogLevel::X) return;  LogMetaData metaData{getName(), X};
\* and the entry of format(): std::string result.
FormatBegin(level, text) ==
  /\ lastCall.pc = "idle"
  /\ lastCall.n < MaxFormatCalls
  /\ IF Drops(lg.m_level, level)
     THEN lastCall' = [lastCall EXCEPT !.n = @ + 1, !.dropped = TRUE,
                                       !.level = level, !.text = text,
                                       !.at = clock]
     ELSE lastCall' = [lastCall EXCEPT
            !.n = @ + 1, !.pc = "loop", !.dropped = FALSE,
            !.metaData = LogMetaData(lg.m_name, level, clock),
            !.i = 1, !.result = <<>>, !.level = level, !.text = text,
            !.at = clock]
  /\ UNCHANGED <<lg, sinks, clock>>
  /\ LogFrame

\* One iteration of for (const auto &headerGenerator : headers).
FormatHeader ==
  /\ lastCall.pc = "loop"
  /\ lastCall.i <= Len(lg.m_headerGenerators)
  /\ lastCall' = [lastCall EXCEPT
       !.result = AppendHeader(@, Generate(lg.m_headerGenerators[lastCall.i],
                                           lastCall.metaData)),
       !.i = @ + 1]
  /\ UNCHANGED <<lg, sinks, clock>>
  /\ LogFrame

\* std::format_to(back_inserter(result), fmt, args...); return result; and
\* log(result).
FormatMessage ==
  /\ lastCall.pc = "loop"
  /\ lastCall.i > Len(lg.m_headerGenerators)
  /\ LET message == lastCall.result \o lastCall.text IN
       /\ lastCall' = [lastCall EXCEPT !.pc = "idle", !.line = message]
       /\ sinks' = Log(sinks, lg.m_outputters, lg.m_flushApplier, message,
                       clock)
  /\ UNCHANGED <<lg, clock>>
  /\ LogFrame

\* addHeaderGenerator(g), between two calls of the thread.
FormatAddHeaderGenerator(g) ==
  /\ lastCall.pc = "idle"
  /\ Len(lg.m_headerGenerators) < MaxFormatHeaders
  /\ lg' = [lg EXCEPT !.m_headerGenerators = Append(@, g)]
  /\ UNCHANGED <<sinks, clock, lastCall>>
  /\ LogFrame

\* The clock advances, also while a call is in format().
FormatTick ==
  /\ clock < MaxFormatClock
  /\ clock' = clock + 1
  /\ UNCHANGED <<lg, sinks, lastCall>>
  /\ LogFrame

FormatNext ==
  \/ \E level \in {Levels[i] : i \in 1..Len(Levels)} :
       \E text \in Texts : FormatBegin(level, text)
  \/ FormatHeader
  \/ FormatMessage
  \/ \E g \in FormatGenerators : FormatAddHeaderGenerator(g)
  \/ FormatTick

-----------------------------------------------------------------------------
(* write_bytes and write_line on a native file handle:                     *)
(* details/TimeWrapper.hpp lines 58-101 (POSIX),                           *)
(* details/NativeFileHandleWindows.hpp lines 42-66 (Windows)               *)
(*                                                                         *)
(* One thread calls write_bytes(nf, data, len) or write_line(nf, data,     *)
(* len) on a file opened for append.  Every system call is a step whose    *)
(* result the system chooses: a count of bytes taken, a failure, or, on    *)
(* POSIX, an interruption (EINTR).  The bytes taken are appended to the    *)
(* file.                                                                   *)

MaxWriteCalls == 1
MaxWriteLen   == 3

NativePlatforms == {"posix", "windows"}
Routines  == {"write_bytes", "write_line"}
Letters   == <<"a", "b", "c">>
\* The messages "", "a", "ab", "abc", ...
WriteData ==
  {[k \in 1..n |-> Letters[((k - 1) % Len(Letters)) + 1]] :
     n \in 0..MaxWriteLen}
\* What the byte in front of the message may hold.
OutOfBounds == {"?", "c"}

\* What the file opened for append may hold already.
NativeContents == {<<>>, <<"p", NL>>}

Eintr      == [kind |-> "eintr", n |-> 0]
Failure    == [kind |-> "failed", n |-> 0]
Taken(n)   == [kind |-> "count", n |-> n]
NoResult   == [kind |-> "none", n |-> 0]

\* An offset that moves by one byte whatever the count.
AdvanceByOne(total, written) == total + 1

\* total += static_cast<std::size_t>(written);
Advance(total, written) == total + written

\* The write_bytes calls write_line makes after writev took written bytes,
\* written # expected (lines 86-99), as the buffers they are given:
\* start = data + (expected - remaining - 1), remaining - 1 bytes from
\* there, then the newline.  stray is the byte at data[-1].
Fallback(data, written, stray) ==
  LET len       == Len(data)
      expected  == len + 1
      remaining == expected - written
      start     == expected - remaining - 1 IN
    IF remaining = 1 THEN << <<NL>> >>
    ELSE << [k \in 1..(remaining - 1) |->
               IF start + k >= 1 THEN data[start + k] ELSE stray],
            <<NL>> >>

NativeInit ==
  wr \in { [platform |-> p, calls |-> 0, routine |-> "write_bytes",
            data |-> <<>>, out |-> o, before |-> <<>>, pc |-> "idle",
            buf |-> <<>>, total |-> 0, rest |-> <<>>, last |-> NoResult,
            eintrs |-> 0, sawEintr |-> FALSE, sawShort |-> FALSE,
            oob |-> FALSE] : p \in NativePlatforms, o \in NativeContents }

NativeFrame ==
  UNCHANGED <<sinkVars, trieVars, repoVars, logVars, fileVars, hotVars,
              timeVars, mapVars, lockVars>>

\* The caller enters write_bytes(nf, data, len) or write_line(nf, data, len).
\* On Windows write_line copies the message and '\n' into tmp and calls
\* write_bytes(nf, tmp.data(), tmp.size()).
CallWrite(routine, data) ==
  /\ wr.pc \in {"idle", "returned", "thrown"}
  /\ wr.calls < MaxWriteCalls
  /\ wr' = [wr EXCEPT
       !.calls = @ + 1, !.routine = routine, !.data = data,
       !.before = wr.out, !.last = NoResult, !.oob = FALSE,
       !.sawEintr = FALSE, !.sawShort = FALSE,
       !.pc = IF routine = "write_line" /\ wr.platform = "posix"
              THEN "writev" ELSE "bytes",
       !.buf = IF routine = "write_line" /\ wr.platform = "windows"
               THEN data \o <<NL>> ELSE data,
       !.total = 0, !.rest = <<>>]
  /\ NativeFrame

\* POSIX write_line: ssize_t written = ::writev(nf.fd, vec, 2) and what
\* follows it, up to the first write_bytes call (lines 74-100).
Writev(result, stray) ==
  /\ wr.pc = "writev"
  /\ result.n <= Len(wr.data) + 1
  /\ LET expected == Len(wr.data) + 1 IN
       CASE result.kind = "eintr" ->
              wr' = [wr EXCEPT !.last = result, !.sawEintr = TRUE,
                               !.pc = "bytes", !.buf = wr.data,
                               !.total = 0, !.rest = << <<NL>> >>]
         [] result.kind = "failed" ->
              wr' = [wr EXCEPT !.last = result, !.pc = "thrown"]
         [] result.kind = "count" /\ result.n = expected ->
              wr' = [wr EXCEPT !.last = result, !.pc = "returned",
                               !.out = @ \o wr.data \o <<NL>>]
         [] result.kind = "count" /\ result.n # expected ->
              LET calls == Fallback(wr.data, result.n, stray) IN
                wr' = [wr EXCEPT
                  !.last = result, !.sawShort = TRUE,
                  !.out = @ \o SubSeq(wr.data \o <<NL>>, 1, result.n),
                  !.oob = (result.n = 0 /\ expected - result.n # 1),
                  !.pc = "bytes", !.buf = Head(calls), !.total = 0,
                  !.rest = Tail(calls)]
  /\ NativeFrame

\* One turn of the loop of write_bytes: ::write(nf.fd, data + total,
\* len - total) or WriteFile, and the tests on its result.
WriteCall(result) ==
  /\ wr.pc = "bytes"
  /\ wr.total < Len(wr.buf)
  /\ result.n <= Len(wr.buf) - wr.total
  /\ result.kind = "eintr" => wr.platform = "posix"
  /\ CASE result.kind = "eintr" ->
            wr' = [wr EXCEPT !.last = result, !.sawEintr = TRUE,
                             !.eintrs = 1 - @]
       [] result.kind = "failed" \/ (result.kind = "count" /\ result.n = 0) ->
            wr' = [wr EXCEPT !.last = result, !.pc = "thrown"]
       [] result.kind = "count" /\ result.n > 0 ->
            wr' = [wr EXCEPT
              !.last = result,
              !.sawShort = @ \/ result.n < Len(wr.buf) - wr.total,
              !.out = @ \o SubSeq(wr.buf, wr.total + 1, wr.total + result.n),
              !.total = Advance(@, result.n)]
  /\ NativeFrame

\* while (total < len) is false: write_bytes returns, to write_line's next
\* write_bytes call or to the caller.
WriteBytesReturn ==
  /\ wr.pc = "bytes"
  /\ wr.total >= Len(wr.buf)
  /\ IF wr.rest = <<>>
     THEN wr' = [wr EXCEPT !.pc = "returned"]
     ELSE wr' = [wr EXCEPT !.buf = Head(wr.rest), !.total = 0,
                           !.rest = Tail(wr.rest)]
  /\ NativeFrame

Results(max) == {Eintr, Failure} \cup {Taken(n) : n \in 0..max}

SystemCalls ==
  \/ \E result \in Results(MaxWriteLen + 1) : \E stray \in OutOfBounds :
       Writev(result, stray)
  \/ \E result \in Results(MaxWriteLen + 1) : WriteCall(result)
  \/ WriteBytesReturn

NativeNext ==
  \/ \E routine \in Routines : \E data \in WriteData :
       CallWrite(routine, data)
  \/ \E result \in Results(MaxWriteLen + 1) : \E stray \in OutOfBounds :
       Writev(result, stray)
  \/ \E result \in Results(MaxWriteLen + 1) : WriteCall(result)
  \/ WriteBytesReturn

-----------------------------------------------------------------------------
(* The local-offset resolvers: src/unnamed/part_002 lines 23-30 (Linux     *)
(* helper), Logger.hpp lines 254-267 (tm_gmtoff and Windows bias),         *)
(* details/NativeFileHandleWindows.hpp lines 97-104 (Windows helper)       *)
(*                                                                         *)
(* A zone is the number of minutes its standard time is ahead of UTC and   *)
(* whether daylight saving time, one hour more, is in force.  An instant   *)
(* is a count of seconds since the epoch; localtime gives its calendar     *)
(* fields, here the seconds since the epoch shown by a local clock, with   *)
(* tm_gmtoff and tm_isdst.                                                 *)

MaxOffsetInstant == 2
SecondsPerMinute == 60
DaylightMinutes  == 60

StandardOffsets == {0 - 570, 0 - 300, 0, 60, 120, 345, 540}
Instants == {i * 1800 : i \in 0..MaxOffsetInstant}

\* Integer division of C: towards zero.
TruncDiv(a, b) == IF a >= 0 THEN a \div b ELSE 0 - ((0 - a) \div b)

\* Minutes the zone is ahead of UTC.
AheadOfUtc(std, isdst) == std + (IF isdst THEN DaylightMinutes ELSE 0)

\* localtime_r / localtime_s of the instant t in the zone.
LocalTm(t, std, isdst) ==
  [clock |-> t + SecondsPerMinute * AheadOfUtc(std, isdst),
   tm_gmtoff |-> SecondsPerMinute * AheadOfUtc(std, isdst),
   tm_isdst |-> IF isdst THEN 1 ELSE 0]

\* mktime: the instant at which the local clock shows the fields, with
\* tm_isdst saying which of the zone's two offsets applies.
Mktime(tm, std) == tm.clock - SecondsPerMinute * AheadOfUtc(std, tm.tm_isdst > 0)

\* timegm: the instant at which a UTC clock shows the fields.
Timegm(tm) == tm.clock

\* GetDynamicTimeZoneInformation: Bias is UTC minus local time, in
\* minutes; StandardBias and DaylightBias are added to it.
DynamicTimeZoneInformation(std) ==
  [Bias |-> 0 - std, StandardBias |-> 0, DaylightBias |-> 0 - DaylightMinutes]

\* getLocalTimeZoneOffsetMinutes of part_002 (Linux), lines 23-30.
LinuxLocalTimeZoneOffsetMinutes(localTm, std) ==
  LET localEpoch == Mktime(localTm, std)
      utcEpoch == Timegm(localTm)
      diffSeconds == localEpoch - utcEpoch IN
    TruncDiv(diffSeconds, SecondsPerMinute)

\* getTimeZoneOffsetInMinutes, the __linux__ branch, Logger.hpp line 262.
GmtoffTimeZoneOffsetInMinutes(time) == TruncDiv(time.tm_gmtoff, SecondsPerMinute)

\* getLocalTimeZoneOffsetMinutes of NativeFileHandleWindows.hpp, lines
\* 97-104, and the _WIN32 branch of getTimeZoneOffsetInMinutes.
WindowsLocalTimeZoneOffsetMinutes(time, dtzi) ==
  0 - (dtzi.Bias + (IF time.tm_isdst > 0 THEN dtzi.DaylightBias
                    ELSE dtzi.StandardBias))

OffsetInit ==
  /\ cachedTimes = <<>>
  /\ cachedLocalTimeZoneOffset = 0
  /\ \E std \in StandardOffsets : \E isdst \in BOOLEAN :
       tenv = [std |-> std, isdst |-> isdst, t |-> 0, n |-> 0,
               linux |-> 0, gmtoff |-> 0, windows |-> 0, numeric |-> <<>>]

\* Time passes.
OffsetTick ==
  /\ \E t \in Instants :
       /\ t > tenv.t
       /\ tenv' = [tenv EXCEPT !.t = t, !.n = 0]
  /\ UNCHANGED <<cachedTimes, cachedLocalTimeZoneOffset>>
  /\ TimeFrame

\* Daylight saving time begins or ends.
OffsetDaylight ==
  /\ tenv' = [tenv EXCEPT !.isdst = ~@, !.n = 0]
  /\ UNCHANGED <<cachedTimes, cachedLocalTimeZoneOffset>>
  /\ TimeFrame

\* Every resolver is asked for the offset at the present instant, and the
\* result of the tm_gmtoff one is rendered.
OffsetResolve ==
  /\ tenv.n = 0
  /\ LET tm == LocalTm(tenv.t, tenv.std, tenv.isdst) IN
       tenv' = [tenv EXCEPT
                  !.n = 1,
                  !.linux = LinuxLocalTimeZoneOffsetMinutes(tm, tenv.std),
                  !.gmtoff = GmtoffTimeZoneOffsetInMinutes(tm),
                  !.windows =
                    WindowsLocalTimeZoneOffsetMinutes(
                      tm, DynamicTimeZoneInformation(tenv.std)),
                  !.numeric =
                    ToNumericUtcOffset(GmtoffTimeZoneOffsetInMinutes(tm))]
  /\ UNCHANGED <<cachedTimes, cachedLocalTimeZoneOffset>>
  /\ TimeFrame

OffsetNext ==
  \/ OffsetTick
  \/ OffsetDaylight
  \/ OffsetResolve

-----------------------------------------------------------------------------
(* The locks of Repository, Logger and FileOutputter:                      *)
(* Repository.hpp lines 84-122, Logger.hpp lines 368-378, 423-428 and      *)
(* 470-523, Outputter.hpp lines 140-181                                    *)
(*                                                                         *)
(* Two threads call getLogger, addLogger, the configuration calls of a     *)
(* Logger and its logging calls.  The logger A is registered under the     *)
(* path "a" and owns the sink s1, the logger B under "b" and owns s2; a    *)
(* thread gets a shared_ptr to A from getLogger("a") and may drop it.      *)
(* addLogger("a", B) replaces the entry of A: when that was the last       *)
(* shared_ptr to A, A and its sink are destroyed by the assignment.  What  *)
(* is kept of a sink is whether its buffer holds bytes.                    *)

LockThreads == {"t1", "t2"}

Registry    == "registry"
FlusherLock == "flusher"
ConfigLocks == {"config A", "config B"}
SinkLocks   == {"s1", "s2"}
LockNames   == {Registry, FlusherLock} \cup ConfigLocks \cup SinkLocks

LockPaths == {"a", "b", "b.x"}

\* The getters getLogger calls on the parent, lines 100-103; getLogLevel
\* reads an atomic and takes no lock.
ParentGetters ==
  <<"getOutputters", "getHeaderGenerators", "getFormatter", "getFlusher">>

\* Logger::m_mutex of a logger and the m_mutex of the sink it owns.
ConfigOf(l) == IF l = "A" THEN "config A" ELSE "config B"
SinkOf(l)   == IF l = "A" THEN "s1" ELSE "s2"

\* The static std::mutex of the flushers of earlier revisions.
FlusherLocksStatic(flusher) ==
  IF flusher = "NeverFlush" THEN {} ELSE {FlusherLock}

\* The locks a flusher takes for itself, lines 359-378: none.
FlusherLocks(flusher) == {}

\* The locks a thread holds.
HeldBy(t) == {k \in LockNames : lockOwner[k] = t}

\* The statements at which a thread is inside details::write.
WritePcs == {"o_write", "fl_write", "d_write"}

\* The loggers a thread has a shared_ptr to.
LoggersOf(t) == {"B"} \cup (IF thr[t].refA THEN {"A"} ELSE {})

\* The last shared_ptr to A is gone when the registry's entry is another
\* logger and no thread has one.
LastOfA(t) == \A u \in LockThreads \ {t} : ~thr[u].refA

\* A thread inside no call, with or without a shared_ptr to A.
IdleThread(refA) ==
  [pc |-> "idle", path |-> "a", inherit |-> FALSE, i |-> 0, logger |-> "B",
   flusher |-> "NeverFlush", refA |-> refA, ret |-> "idle"]

LockInit ==
  /\ lockOwner = [k \in LockNames |-> Free]
  /\ thr = [t \in LockThreads |-> IdleThread(FALSE)]
  /\ live = [entry |-> "A", child |-> FALSE, s1 |-> TRUE,
             buffered |-> [k \in SinkLocks |-> FALSE]]

LockFrame ==
  UNCHANGED <<sinkVars, trieVars, repoVars, logVars, fileVars, hotVars,
              timeVars, nativeVars, mapVars>>

Acquire(t, ks) ==
  /\ \A k \in ks : lockOwner[k] = Free
  /\ lockOwner' = [k \in LockNames |-> IF k \in ks THEN t ELSE lockOwner[k]]

Release(t, ks) ==
  lockOwner' = [k \in LockNames |-> IF k \in ks THEN Free ELSE lockOwner[k]]

Goto(t, to) ==
  thr' = [thr EXCEPT ![t] = IF to = "idle" THEN IdleThread(thr[t].refA)
                            ELSE [thr[t] EXCEPT !.pc = to]]

\* getLogger(path, inheritFromParent), line 88: the registry's mutex.
LockGetLoggerEnter(t) ==
  /\ thr[t].pc = "idle"
  /\ Acquire(t, {Registry})
  /\ \E p \in LockPaths : \E inherit \in BOOLEAN :
       /\ inherit => p = "b.x"
       /\ thr' = [thr EXCEPT ![t].pc = "g_find", ![t].path = p,
                             ![t].inherit = inherit]
  /\ UNCHANGED live
  /\ LockFrame

\* getLogger, lines 91-93 and 97-99: the exact match, which hands out a
\* shared_ptr to the entry; on a miss the parent, if asked for.
LockGetLoggerFind(t) ==
  /\ thr[t].pc = "g_find"
  /\ IF thr[t].path = "a"
     THEN /\ thr' = [thr EXCEPT ![t].pc = "g_exit",
                                ![t].refA = @ \/ live.entry = "A"]
          /\ UNCHANGED live
     ELSE IF thr[t].path = "b" \/ live.child
     THEN /\ Goto(t, "g_exit")
          /\ UNCHANGED live
     ELSE IF thr[t].inherit
     THEN /\ thr' = [thr EXCEPT ![t].pc = "g_getter", ![t].i = 1]
          /\ UNCHANGED live
     ELSE /\ Goto(t, "g_exit")
          /\ live' = [live EXCEPT !.child = TRUE]
  /\ UNCHANGED lockOwner
  /\ LockFrame

\* A getter of the parent is entered, lines 100-103: std::lock_guard
\* l{m_mutex} of the parent, with the registry's mutex held.
LockGetLoggerGetter(t) ==
  /\ thr[t].pc = "g_getter"
  /\ Acquire(t, {ConfigOf("B")})
  /\ Goto(t, "g_getter_exit")
  /\ UNCHANGED live
  /\ LockFrame

\* The getter returns; after the last one the inherited logger is inserted,
\* line 104.
LockGetLoggerGetterExit(t) ==
  /\ thr[t].pc = "g_getter_exit"
  /\ Release(t, {ConfigOf("B")})
  /\ IF thr[t].i < Len(ParentGetters)
     THEN /\ thr' = [thr EXCEPT ![t].pc = "g_getter", ![t].i = @ + 1]
          /\ UNCHANGED live
     ELSE /\ Goto(t, "g_exit")
          /\ live' = [live EXCEPT !.child = TRUE]
  /\ LockFrame

\* getLogger returns: the lock_guard releases the registry's mutex.
LockGetLoggerExit(t) ==
  /\ thr[t].pc = "g_exit"
  /\ Release(t, {Registry})
  /\ Goto(t, "idle")
  /\ UNCHANGED live
  /\ LockFrame

\* addLogger("a", B), line 119: the registry's mutex.
LockAddLoggerEnter(t) ==
  /\ thr[t].pc = "idle"
  /\ Acquire(t, {Registry})
  /\ Goto(t, "a_insert")
  /\ UNCHANGED live
  /\ LockFrame

\* addLogger, line 121, and SegmentTrie::insert, line 52: m_value =
\* std::move(value) releases the shared_ptr the entry held.  When it was the
\* last one to A, ~Logger runs here and destroys m_outputters, and with it
\* the FileOutputter only A owned.
LockAddLoggerInsert(t) ==
  /\ thr[t].pc = "a_insert"
  /\ live' = [live EXCEPT !.entry = "B"]
  /\ IF live.entry = "A" /\ ~thr[t].refA /\ LastOfA(t)
     THEN thr' = [thr EXCEPT ![t].pc = "d_lock", ![t].ret = "a_exit"]
     ELSE Goto(t, "a_exit")
  /\ UNCHANGED lockOwner
  /\ LockFrame

\* addLogger returns: the lock_guard releases the registry's mutex.
LockAddLoggerExit(t) ==
  /\ thr[t].pc = "a_exit"
  /\ Release(t, {Registry})
  /\ Goto(t, "idle")
  /\ UNCHANGED live
  /\ LockFrame

\* A thread lets go of its shared_ptr to A; the last one destroys A.
LockDropReference(t) ==
  /\ thr[t].pc = "idle" /\ thr[t].refA
  /\ IF live.entry # "A" /\ LastOfA(t)
     THEN thr' = [thr EXCEPT ![t].refA = FALSE, ![t].pc = "d_lock"]
     ELSE thr' = [thr EXCEPT ![t].refA = FALSE]
  /\ UNCHANGED <<lockOwner, live>>
  /\ LockFrame

\* ~FileOutputter, lines 141-144: the sink's mutex, and the test of the
\* cursor.
LockDestroyLock(t) ==
  /\ thr[t].pc = "d_lock"
  /\ Acquire(t, {SinkOf("A")})
  /\ Goto(t, IF live.buffered[SinkOf("A")] THEN "d_write" ELSE "d_exit")
  /\ UNCHANGED live
  /\ LockFrame

\* ~FileOutputter, lines 145-146: details::write of the buffered bytes.
LockDestroyWrite(t) ==
  /\ thr[t].pc = "d_write"
  /\ live' = [live EXCEPT !.buffered[SinkOf("A")] = FALSE]
  /\ Goto(t, "d_exit")
  /\ UNCHANGED lockOwner
  /\ LockFrame

\* The destructor returns and the sink is gone.
LockDestroyExit(t) ==
  /\ thr[t].pc = "d_exit"
  /\ Release(t, {SinkOf("A")})
  /\ live' = [live EXCEPT !.s1 = FALSE]
  /\ Goto(t, thr[t].ret)
  /\ LockFrame

\* addOutputter, addHeaderGenerator, setFlusher and the locking getters of
\* a logger the thread has, lines 470-523: std::lock_guard l{m_mutex}.
LockConfigEnter(t) ==
  /\ thr[t].pc = "idle"
  /\ \E l \in LoggersOf(t) :
       /\ Acquire(t, {ConfigOf(l)})
       /\ thr' = [thr EXCEPT ![t].pc = "c_exit", ![t].logger = l]
  /\ UNCHANGED live
  /\ LockFrame

LockConfigExit(t) ==
  /\ thr[t].pc = "c_exit"
  /\ Release(t, {ConfigOf(thr[t].logger)})
  /\ Goto(t, "idle")
  /\ UNCHANGED live
  /\ LockFrame

\* debug / info / warn / error of a logger the thread has, up to the call
\* of output() in log(), lines 423-425: no lock is taken.
LockLogEnter(t) ==
  /\ thr[t].pc = "idle"
  /\ \E l \in LoggersOf(t) : \E f \in Flushers :
       thr' = [thr EXCEPT ![t].pc = "o_lock", ![t].logger = l,
                          ![t].flusher = f]
  /\ UNCHANGED <<lockOwner, live>>
  /\ LockFrame

\* output(), lines 150-160: the sink's mutex; the message is buffered, or
\* the buffer or the message has to be written first.
LockOutputLock(t) ==
  /\ thr[t].pc = "o_lock"
  /\ Acquire(t, {SinkOf(thr[t].logger)})
  /\ \/ /\ Goto(t, "o_exit")
        /\ live' = [live EXCEPT !.buffered[SinkOf(thr[t].logger)] = TRUE]
     \/ /\ Goto(t, "o_write")
        /\ UNCHANGED live
  /\ LockFrame

\* output(), lines 154 and 160-165: details::write of the buffer or of the
\* message; the message is then in the buffer or in the file.
LockOutputWrite(t) ==
  /\ thr[t].pc = "o_write"
  /\ \E b \in BOOLEAN :
       live' = [live EXCEPT !.buffered[SinkOf(thr[t].logger)] = b]
  /\ Goto(t, "o_exit")
  /\ UNCHANGED lockOwner
  /\ LockFrame

\* output() returns, then m_flushApplier(outputter) is called, line 426.
LockOutputExit(t) ==
  /\ thr[t].pc = "o_exit"
  /\ Release(t, {SinkOf(thr[t].logger)})
  /\ Goto(t, "f_enter")
  /\ UNCHANGED live
  /\ LockFrame

\* The flusher is entered, lines 359-378.
LockFlusherEnter(t) ==
  /\ thr[t].pc = "f_enter"
  /\ Acquire(t, FlusherLocks(thr[t].flusher))
  /\ Goto(t, CASE thr[t].flusher = "NeverFlush" -> "f_exit"
               [] thr[t].flusher = "AlwaysFlush" -> "fl_lock"
               [] thr[t].flusher = "TimeThresholdFlush" -> "lf_lock")
  /\ UNCHANGED live
  /\ LockFrame

\* outputter->lastFlush(), Outputter.hpp lines 173-176.
LockLastFlushLock(t) ==
  /\ thr[t].pc = "lf_lock"
  /\ Acquire(t, {SinkOf(thr[t].logger)})
  /\ Goto(t, "lf_exit")
  /\ UNCHANGED live
  /\ LockFrame

\* lastFlush() returns; the threshold has passed or not, line 375.
LockLastFlushExit(t) ==
  /\ thr[t].pc = "lf_exit"
  /\ Release(t, {SinkOf(thr[t].logger)})
  /\ \E to \in {"fl_lock", "f_exit"} : Goto(t, to)
  /\ UNCHANGED live
  /\ LockFrame

\* outputter->flush(), Outputter.hpp lines 178-181 and 185-186.
LockFlushLock(t) ==
  /\ thr[t].pc = "fl_lock"
  /\ Acquire(t, {SinkOf(thr[t].logger)})
  /\ Goto(t, IF live.buffered[SinkOf(thr[t].logger)]
             THEN "fl_write" ELSE "fl_exit")
  /\ UNCHANGED live
  /\ LockFrame

\* flushUnlocked(), lines 187-190: details::write of the buffer.
LockFlushWrite(t) ==
  /\ thr[t].pc = "fl_write"
  /\ live' = [live EXCEPT !.buffered[SinkOf(thr[t].logger)] = FALSE]
  /\ Goto(t, "fl_exit")
  /\ UNCHANGED lockOwner
  /\ LockFrame

LockFlushExit(t) ==
  /\ thr[t].pc = "fl_exit"
  /\ Release(t, {SinkOf(thr[t].logger)})
  /\ Goto(t, "f_exit")
  /\ UNCHANGED live
  /\ LockFrame

\* The flusher returns, and log() with it.
LockFlusherExit(t) ==
  /\ thr[t].pc = "f_exit"
  /\ Release(t, FlusherLocks(thr[t].flusher))
  /\ Goto(t, "idle")
  /\ UNCHANGED live
  /\ LockFrame

LockNext ==
  \/ \E t \in LockThreads : LockGetLoggerEnter(t)
  \/ \E t \in LockThreads : LockGetLoggerFind(t)
  \/ \E t \in LockThreads : LockGetLoggerGetter(t)
  \/ \E t \in LockThreads : LockGetLoggerGetterExit(t)
  \/ \E t \in LockThreads : LockGetLoggerExit(t)
  \/ \E t \in LockThreads : LockAddLoggerEnter(t)
  \/ \E t \in LockThreads : LockAddLoggerInsert(t)
  \/ \E t \in LockThreads : LockAddLoggerExit(t)
  \/ \E t \in LockThreads : LockDropReference(t)
  \/ \E t \in LockThreads : LockDestroyLock(t)
  \/ \E t \in LockThreads : LockDestroyWrite(t)
  \/ \E t \in LockThreads : LockDestroyExit(t)
  \/ \E t \in LockThreads : LockConfigEnter(t)
  \/ \E t \in LockThreads : LockConfigExit(t)
  \/ \E t \in LockThreads : LockLogEnter(t)
  \/ \E t \in LockThreads : LockOutputLock(t)
  \/ \E t \in LockThreads : LockOutputWrite(t)
  \/ \E t \in LockThreads : LockOutputExit(t)
  \/ \E t \in LockThreads : LockFlusherEnter(t)
  \/ \E t \in LockThreads : LockLastFlushLock(t)
  \/ \E t \in LockThreads : LockLastFlushExit(t)
  \/ \E t \in LockThreads : LockFlushLock(t)
  \/ \E t \in LockThreads : LockFlushWrite(t)
  \/ \E t \in LockThreads : LockFlushExit(t)
  \/ \E t \in LockThreads : LockFlusherExit(t)

-----------------------------------------------------------------------------
(* Logger::log, one sink at a time: Logger.hpp lines 423-428 *)
(*                                                                         *)
(* One thread logs through one Logger.  The range-for of log() is taken    *)
(* one call at a time: output() on the sink at the loop's position, then   *)
(* m_flushApplier on it, then the next position.  The calls made are       *)
(* recorded in order, with the sinks as they were when the call began.     *)

MaxVisitCalls == 2

VisitLevels == {"Debug", "Info"}

\* The loop of an earlier revision: output() on every sink, then flush()
\* on every sink.
LoopStepOutputAllThenFlushAll(phase, i, n) ==
  IF phase = "output"
  THEN IF i < n THEN [phase |-> "output", i |-> i + 1]
       ELSE [phase |-> "flusher", i |-> 1]
  ELSE IF i < n THEN [phase |-> "flusher", i |-> i + 1]
       ELSE [phase |-> "idle", i |-> 0]

\* for (const auto &outputter : m_outputters) { outputter->output(message);
\* m_flushApplier(outputter); }: what follows a call made at position i of n.
LoopStep(phase, i, n) ==
  IF phase = "output" THEN [phase |-> "flusher", i |-> i]
  ELSE IF i < n THEN [phase |-> "output", i |-> i + 1]
  ELSE [phase |-> "idle", i |-> 0]

VisitInit ==
  /\ lg = [m_name |-> LoggerNameChars, m_level |-> "Info",
           m_outputters |-> <<>>, m_headerGenerators |-> <<>>,
           m_flushApplier |-> "AlwaysFlush"]
  /\ sinks = [s \in SinkIds |->
               [pending |-> <<>>, file |-> <<>>, m_lastFlush |-> 0,
                acquired |-> 0]]
  /\ clock = 0
  /\ lastCall = [n |-> 0, emitted |-> FALSE, line |-> <<>>, list |-> <<>>,
                 before |-> sinks, phase |-> "idle", i |-> 0, trace |-> <<>>]

\* debug / info (level) with a text: the level test, format(), and the
\* entry of log() with its loop at the first sink, if there is one.
VisitCall(level, text) ==
  /\ lastCall.phase = "idle" /\ lastCall.n < MaxVisitCalls
  /\ lastCall' =
       [n |-> lastCall.n + 1,
        emitted |-> ~Drops(lg.m_level, level),
        line |-> Format(lg.m_name, level, lg.m_headerGenerators, text),
        list |-> lg.m_outputters,
        before |-> sinks,
        phase |-> IF Drops(lg.m_level, level) \/ lg.m_outputters = <<>>
                  THEN "idle" ELSE "output",
        i |-> IF Drops(lg.m_level, level) \/ lg.m_outputters = <<>>
              THEN 0 ELSE 1,
        trace |-> <<>>]
  /\ UNCHANGED <<lg, sinks, clock>>
  /\ LogFrame

\* outputter->output(message), line 425.
VisitOutput ==
  /\ lastCall.phase = "output"
  /\ LET o == lg.m_outputters[lastCall.i]
         step == LoopStep("output", lastCall.i, Len(lg.m_outputters)) IN
       /\ sinks' = [sinks EXCEPT ![o] = SinkOutput(@, lastCall.line, clock)]
       /\ lastCall' =
            [lastCall EXCEPT
               !.trace = Append(@, [op |-> "output", at |-> lastCall.i,
                                    sink |-> o]),
               !.phase = step.phase, !.i = step.i]
  /\ UNCHANGED <<lg, clock>>
  /\ LogFrame

\* m_flushApplier(outputter), line 426.
VisitFlusher ==
  /\ lastCall.phase = "flusher"
  /\ LET o == lg.m_outputters[lastCall.i]
         step == LoopStep("flusher", lastCall.i, Len(lg.m_outputters)) IN
       /\ sinks' = [sinks EXCEPT
                      ![o] = ApplyFlusher(lg.m_flushApplier, @, clock)]
       /\ lastCall' =
            [lastCall EXCEPT
               !.trace = Append(@, [op |-> "flusher", at |-> lastCall.i,
                                    sink |-> o]),
               !.phase = step.phase, !.i = step.i]
  /\ UNCHANGED <<lg, clock>>
  /\ LogFrame

\* addOutputter and setFlusher, by the same thread between its calls.
VisitAddOutputter(o) ==
  /\ lastCall.phase = "idle"
  /\ AddOutputter(o)

VisitSetFlusher(f) ==
  /\ lastCall.phase = "idle"
  /\ SetFlusher(f)

VisitNext ==
  \/ \E level \in VisitLevels : \E text \in Texts : VisitCall(level, text)
  \/ VisitOutput
  \/ VisitFlusher
  \/ \E o \in SinkIds : VisitAddOutputter(o)
  \/ \E f \in Flushers : VisitSetFlusher(f)
  \/ Tick

-----------------------------------------------------------------------------
(* SegmentMap beside SegmentTrie: src/unnamed/part_008 lines 15-54 *)
(*                                                                         *)
(* The same inserts and removes are applied to a SegmentTrie and to a      *)
(* SegmentMap, and the same key is looked up in both.  The map's key is a  *)
(* std::string_view of the std::string that getName() returned by value    *)
(* (line 16): the string is destroyed at the end of that statement, so     *)
(* what a later comparison with a stored key reads is not defined.  An     *)
(* entry is the pair of the name the key was taken from and the value; a   *)
(* comparison with its key either still reads that name or does not.       *)

MaxEquivKeyLen  == 3
MaxEquivEntries == 2
SizeModulus    == 65536
Crashed == "crashed"

EquivKeys    == {k \in Keys : WellFormed(k) /\ Len(k) <= MaxEquivKeyLen}
EquivQueries == {q \in Queries : Len(q) <= MaxEquivKeyLen + 1}

\* m_map.insert_or_assign(std::move(key), std::move(logger)), line 17: the
\* entry found for the key is assigned, or a new one is made.
MapInsert(m, name, v) ==
  {(m \ {e}) \cup {<<name, v>>} : e \in {e \in m : e[1] = name}}
    \cup {m \cup {<<name, v>>}}

\* find(key), lines 22-25.
MapFind(m, key) == {Null} \cup {e[2] : e \in {e \in m : e[1] = key}}

\* remove(key), line 54: m_map.erase(key).
MapRemove(m, key) == {m} \cup {m \ {e} : e \in {e \in m : e[1] = key}}

\* auto i = key.size() - 1, line 37: i is a std::size_t.
ScanStart(size) == (size - 1) % SizeModulus

\* The loop of findByLongestPrefix from index i down (lines 37-45) and the
\* default entry after it (lines 48-51).  key[i] with i >= key.size() is a
\* read outside the key.
RECURSIVE MapScan(_, _, _)
MapScan(m, key, i) ==
  IF i >= Len(key) /\ i > 0 THEN {Null, Crashed}
  ELSE IF i <= 0 THEN MapFind(m, <<>>)
  ELSE IF key[i + 1] # Dot THEN MapScan(m, key, i - 1)
  ELSE (MapFind(m, SubSeq(key, 1, i)) \ {Null}) \cup MapScan(m, key, i - 1)

\* findByLongestPrefix(key), lines 31-52.
MapFindByLongestPrefix(m, key) ==
  (MapFind(m, key) \ {Null}) \cup MapScan(m, key, ScanStart(Len(key)))

\* No lookup made on the present contents.
NoQuery ==
  [n |-> 0, q |-> <<>>, trieFind |-> Null, mapFind |-> Null,
   trieLongest |-> Null, mapLongest |-> Null, scanned |-> FALSE, first |-> 0]

EquivInit ==
  /\ trie = EmptyTrie
  /\ reg = [k \in Keys |-> Null]
  /\ lastRemoved = <<>>
  /\ m_map = {}
  /\ mq = NoQuery

EquivFrame ==
  UNCHANGED <<sinkVars, repoVars, logVars, fileVars, hotVars, timeVars,
              nativeVars, lockVars>>

\* insert of a logger named k into both.
EquivInsert(k, v) ==
  /\ (k \in Entries \/ Cardinality(Entries) < MaxEquivEntries)
  /\ trie' = Insert(trie, k, v)
  /\ m_map' \in MapInsert(m_map, k, v)
  /\ Cardinality(m_map') <= MaxEquivEntries
  /\ reg' = [reg EXCEPT ![k] = v]
  /\ lastRemoved' = <<>>
  /\ mq' = NoQuery
  /\ EquivFrame

\* remove(k) on both.
EquivRemove(k) ==
  /\ trie' = Remove(trie, k)
  /\ m_map' \in MapRemove(m_map, k)
  /\ reg' = [reg EXCEPT ![k] = Null]
  /\ lastRemoved' = IF reg[k] # Null THEN <<k>> ELSE <<>>
  /\ mq' = NoQuery
  /\ EquivFrame

\* find(q) and findByLongestPrefix(q) on both.
EquivQuery(q) ==
  /\ \E found \in MapFind(m_map, q) :
       \E longest \in MapFindByLongestPrefix(m_map, q) :
         mq' = [n |-> 1, q |-> q,
                trieFind |-> Find(trie, q), mapFind |-> found,
                trieLongest |-> FindByLongestPrefix(trie, q),
                mapLongest |-> longest,
                scanned |-> ScanStart(Len(q)) > 0,
                first |-> ScanStart(Len(q))]
  /\ UNCHANGED <<trie, reg, lastRemoved, m_map>>
  /\ EquivFrame

EquivNext ==
  \/ \E k \in EquivKeys : \E v \in Vals : EquivInsert(k, v)
  \/ \E k \in EquivKeys : EquivRemove(k)
  \/ \E q \in EquivQueries : EquivQuery(q)

-----------------------------------------------------------------------------
(* The variables of the components a specification does not drive *)

TrieIdle == trie = EmptyTrie /\ reg = <<>> /\ lastRemoved = <<>>
RepoIdle ==
  /\ m_loggers = <<>> /\ repoMutex = Free /\ heap = <<>>
  /\ rpc = <<>> /\ rarg = <<>> /\ returned = {} /\ configured = 0
  /\ registered = <<>>
LogIdle == lg = <<>> /\ sinks = <<>> /\ clock = 0 /\ lastCall = <<>>
FileIdle == disk = <<>> /\ fo = <<>>
HotIdle == lk = <<>> /\ hpc = <<>>
TimeIdle ==
  cachedTimes = <<>> /\ cachedLocalTimeZoneOffset = 0 /\ tenv = <<>>
NativeIdle == wr = <<>>
MapIdle  == m_map = {} /\ mq = <<>>
LockIdle == lockOwner = <<>> /\ thr = <<>> /\ live = <<>>
ExtIdle ==
  FileIdle /\ HotIdle /\ TimeIdle /\ NativeIdle /\ MapIdle /\ LockIdle

-----------------------------------------------------------------------------
(* Specification of the file sink under concurrent callers *)

Init == SinkInit /\ TrieIdle /\ RepoIdle /\ LogIdle /\ ExtIdle
Next == SinkNext
Spec == Init /\ [][Next]_vars

-----------------------------------------------------------------------------
(* Claims about the file sink *)

\* No call is inside output() or flush().
Quiescent ==
  /\ m_mutex = Free
  /\ \A t \in Threads : pc[t] = "idle"

\* The sink has been flushed or destroyed after the last output() call.
Flushed == Quiescent /\ (destroyed \/ m_bufferWriteIndex = 0)

\* The messages of thread t whose output() call has completed, in a state
\* where no call is in progress.
Placed(t) == sent[t]

\* What the sink has taken charge of: the file, then the buffered bytes
\* (the destructor writes them and leaves the cursor as it was).
Delivered == IF destroyed THEN file ELSE file \o Buffered

OversizedFor(m) == IsOversized(Len(m), cap)

\* C1: after output(m1), ..., output(mk) by one caller and a flush() or the
\* destruction of the sink, the file holds exactly m1 NL m2 NL ... mk NL, for
\* every capacity and every message length, oversized messages included.
C1_SequentialContent ==
  \A t \in Threads :
    (Flushed /\ \A u \in Threads \ {t} : sent[u] = <<>>)
      => file = Flatten(sent[t])

\* C1 witness: one caller, a buffered message and an oversized one, flushed.
C1_Witness ==
  /\ Flushed /\ sent["t2"] = <<>> /\ Len(sent["t1"]) = MaxCalls
  /\ \E i \in 1..MaxCalls : OversizedFor(sent["t1"][i])
  /\ \E i \in 1..MaxCalls : ~OversizedFor(sent["t1"][i])
  /\ file = Flatten(sent["t1"])

\* C2: once every thread has made its calls and the sink is flushed, the file
\* holds one line per output() call, every line terminated, and each message
\* appears as a line exactly as often as it was submitted: no line carries
\* bytes of two messages, no terminator is separated from its message.
C2_ConcurrentLines ==
  Flushed =>
    LET lines == LinesOf(file, <<>>) IN
      /\ Len(lines) = SumOver(Threads, [t \in Threads |-> Len(sent[t])])
      /\ Count(file, NL) = Len(lines)
      /\ \A t \in Threads : \A m \in Msgs(t) :
           Count(lines, m) = SumOver(Threads, [u \in Threads |-> Count(sent[u], m)])

\* C2 witness: every thread has made MaxCalls calls, none of them all empty,
\* the sink is flushed, and a line of the second thread comes first.
C2_Witness ==
  /\ Flushed /\ ~destroyed
  /\ \A t \in Threads : Len(sent[t]) = MaxCalls
  /\ \A t \in Threads : \A i \in 1..MaxCalls : sent[t][i] # <<>>
  /\ file # <<>> /\ file[1] = Tag("t2")

\* C3: the lines one thread submits reach the sink in the order of its calls,
\* whatever the other threads do and whichever path (buffer or direct write)
\* each message takes: what the sink holds is a merge of the threads'
\* completed calls that keeps each thread's own order.
C3_ProgramOrder ==
  Quiescent =>
    Delivered \in { Flatten(m) : m \in Interleavings([t \in Threads |-> Placed(t)]) }

\* C3 witness: a thread's buffered message followed by an oversized one of
\* its own, with a call of the other thread completed as well.
C3_Witness ==
  /\ Quiescent /\ Len(Placed("t1")) = 2 /\ Len(Placed("t2")) >= 1
  /\ ~OversizedFor(Placed("t1")[1]) /\ OversizedFor(Placed("t1")[2])
  /\ Placed("t1")[1] # Placed("t1")[2]

\* A byte sequence made of whole lines, each a submitted message.
WholeUnits(bytes) ==
  LET lines == LinesOf(bytes, <<>>) IN
    /\ Count(bytes, NL) = Len(lines)
    /\ \A i \in 1..Len(lines) :
         \E t \in Threads : \E j \in 1..Len(sent[t]) : sent[t][j] = lines[i]

\* C4: the buffered bytes [0, cursor) are always whole message+terminator
\* units.  The one state excepted is the lock holder's own, between the
\* memcpy of its message and the store of the terminator (lines 168-170),
\* which no caller can observe.
C4_NoPartialLine ==
  (\A t \in Threads : pc[t] # "o_term") => WholeUnits(Buffered)

\* C4 witness: two whole units buffered, and a message that went around the
\* buffer.
C4_Witness ==
  /\ Quiescent /\ ~destroyed /\ m_bufferWriteIndex = cap /\ cap > 1
  /\ Len(LinesOf(Buffered, <<>>)) = 2
  /\ file # <<>>

\* C20: the destructor writes every byte still in the buffer to the file,
\* the handle is released only after that and by exactly one fclose however
\* often the release runs, and once it is released the file holds a line
\* for every output() call made.
C20_DestroyFlushesThenReleases ==
  /\ [][ (destroyed' /\ ~destroyed) =>
          /\ file' = file \o Buffered
          /\ m_file' = "open" /\ closes' = 0 ]_vars
  /\ [][ closes' # closes =>
          /\ destroyed /\ m_file = "open" /\ m_file' = Null
          /\ closes' = 1 /\ file' = file ]_vars
  /\ [](m_file = Null <=> closes = 1)
  /\ [](m_file = Null =>
          /\ Count(file, NL) =
               SumOver(Threads, [t \in Threads |-> Len(sent[t])])
          /\ \A t \in Threads : \A i \in 1..Len(sent[t]) :
               Count(LinesOf(file, <<>>), sent[t][i]) >= 1)

\* C20 witness: a sink destroyed with a whole line still buffered and
\* another already in the file; the handle has been released.
C20_Witness ==
  /\ destroyed /\ m_file = Null /\ closes = 1
  /\ m_bufferWriteIndex > 0 /\ m_bufferWriteIndex <= cap
  /\ Len(file) > m_bufferWriteIndex
  /\ SubSeq(file, Len(file) - m_bufferWriteIndex + 1, Len(file)) = Buffered

\* C35.  In every reachable state of a FileOutputter with capacity N the
\* cursor is within 0..N, and output() copies no byte at or beyond index N:
\* the memcpy of the message ends at or before N and the terminator is
\* stored below N.  This covers messages with length+1 < N, length+1 = N
\* (buffered, filling the buffer exactly), length+1 > N (written directly,
\* cursor left at 0) and the empty message.
C35_CursorWithinBuffer ==
  /\ m_bufferWriteIndex \in 0..cap
  /\ [][ /\ m_bufferWriteIndex' \in 0..cap
         /\ \A t \in Threads :
              /\ (pc[t] = "o_size" /\ pc'[t] = "o_term")
                   => m_bufferWriteIndex + Len(cur[t]) <= cap
              /\ (pc[t] = "o_term" /\ pc'[t] = "o_unlock")
                   => m_bufferWriteIndex < cap
              /\ (pc[t] = "o_direct_nl" /\ pc'[t] = "o_unlock")
                   => m_bufferWriteIndex' = 0 ]_vars

\* All four cases have happened: one thread buffered a message that filled
\* the buffer exactly (the cursor is at N), the other sent an empty message
\* that was buffered and an oversized one that was written directly.
C35_Witness ==
  /\ cap = MaxCap /\ m_bufferWriteIndex = cap
  /\ \E t \in Threads : \E u \in Threads \ {t} :
       /\ pc[t] = "idle" /\ pc[u] = "idle"
       /\ \E i \in DOMAIN sent[t] : Len(sent[t][i]) + 1 = cap
       /\ \E i \in DOMAIN sent[t] : Len(sent[t][i]) + 1 < cap
       /\ \E i \in DOMAIN sent[u] : Len(sent[u][i]) = 0
       /\ \E i \in DOMAIN sent[u] : Len(sent[u][i]) + 1 > cap

-----------------------------------------------------------------------------
(* Specification of the Prefix Index under inserts and removes *)

InitTrie == TrieInit /\ SinkIdle /\ RepoIdle /\ LogIdle /\ ExtIdle
NextTrie == TrieNext
SpecTrie == InitTrie /\ [][NextTrie]_vars

-----------------------------------------------------------------------------
(* Claims about the Prefix Index *)

\* k is a dot-aligned prefix of q: a non-empty path that is q itself or is
\* followed in q by the delimiter.  The empty path is the root entry, which
\* is no prefix in this sense.
IsDotAlignedPrefix(k, q) ==
  /\ k # <<>>
  /\ \/ k = q
     \/ /\ Len(q) > Len(k)
        /\ SubSeq(q, 1, Len(k)) = k
        /\ q[Len(k) + 1] = Dot

\* The value registered at the longest dot-aligned prefix of q, by the
\* register of inserts and removes alone.
LongestPrefixValue(r, q) ==
  LET cands == {k \in Keys : r[k] # Null /\ IsDotAlignedPrefix(k, q)} IN
    IF cands = {} THEN Null
    ELSE r[CHOOSE k \in cands : \A j \in cands : Len(j) <= Len(k)]

A    == <<"a">>
AA   == <<"a", "a">>
A_A  == <<"a", Dot, "a">>
AA_A == <<"a", "a", Dot, "a">>
A_AA == <<"a", Dot, "a", "a">>
A_A_A == <<"a", Dot, "a", Dot, "a">>
A_A_A_A == <<"a", Dot, "a", Dot, "a", Dot, "a">>

\* C7: findByLongestPrefix(q) is the value at the longest dot-aligned prefix
\* of q (q included) that carries a value, and absent when there is none,
\* also when nodes without value lie on the way to the match.
C7_LongestPrefix ==
  \A q \in Queries :
    FindByLongestPrefix(trie, q) = LongestPrefixValue(reg, q)

\* C7 witness: "a" and "a.a.a" carry different values, "a.a" none; a lookup
\* below "a.a.a" passes the empty node and finds the deeper value.
C7_Witness ==
  /\ reg[A] = "v1" /\ reg[A_A] = Null /\ reg[A_A_A] = "v2"
  /\ FindByLongestPrefix(trie, A_A_A_A) = "v2"
  /\ FindByLongestPrefix(trie, A_AA) = "v1"
  /\ FindByLongestPrefix(trie, AA) = Null

\* C8: whatever findByLongestPrefix(q) returns is the value of a registered
\* key k with q = k or q starting with k and the delimiter; a key that is
\* only a character prefix of q does not match.
C8_WholeSegments ==
  \A q \in Queries :
    LET v == FindByLongestPrefix(trie, q) IN
      v # Null =>
        \E k \in Keys : reg[k] = v /\ IsDotAlignedPrefix(k, q)

\* C8 witness: "a" and "a.a" are registered with different values; "aa.a"
\* (character prefix "a") finds nothing and "a.aa" (character prefix "a.a")
\* finds the value of "a".
C8_Witness ==
  /\ reg[A] = "v1" /\ reg[A_A] = "v2" /\ Cardinality(Entries) = 2
  /\ FindByLongestPrefix(trie, AA_A) = Null
  /\ FindByLongestPrefix(trie, A_AA) = "v1"

\* C9: find(k) is the value of the last insert(k, v) not followed by
\* remove(k), and absent for every other key: never inserted, removed,
\* a strict prefix or an extension of an inserted key.
C9_FindLastWrite ==
  \A q \in Queries :
    Find(trie, q) = IF q \in Keys THEN reg[q] ELSE Null

\* C9 witness: a node left behind by a remove (no value, no children) next
\* to a key that carries a value below a node without one.
C9_Witness ==
  /\ \E n \in DOMAIN trie :
       n # Root /\ trie[n] = Null /\ Children(trie, n) = {}
  /\ reg[A_A] = "v2" /\ reg[A] = Null
  /\ Find(trie, A_A) = "v2" /\ Find(trie, A) = Null
  /\ Find(trie, A_A_A) = Null

AtOrBelow(k, q) == k = q \/ IsDotAlignedPrefix(k, q)

\* C10: a step that removes a key k carrying a value leaves find(k) absent
\* and findByLongestPrefix(q), for q at or below k, at the value of the
\* longest dot-aligned prefix still carrying one; a step that leaves the
\* register as it was (the remove of a key not present) changes no result
\* of find or findByLongestPrefix.
C10_RemoveFallsBack ==
  [][ /\ \A k \in Keys :
           (reg[k] # Null /\ reg'[k] = Null) =>
             /\ Find(trie', k) = Null
             /\ \A q \in Queries :
                  AtOrBelow(k, q) =>
                    FindByLongestPrefix(trie', q) = LongestPrefixValue(reg', q)
      /\ (reg' = reg /\ trie' # trie) =>
           \A q \in Queries :
             /\ Find(trie', q) = Find(trie, q)
             /\ FindByLongestPrefix(trie', q) = FindByLongestPrefix(trie, q)
    ]_vars

\* C10 witness: "a" carries a value, "a.a" has been removed (its node is
\* gone, the node of "a" has no child left) and a lookup below it falls back
\* to the value of "a".
C10_Witness ==
  /\ lastRemoved = <<A_A>>
  /\ reg[A] # Null /\ reg[A_A] = Null
  /\ <<A>> \in DOMAIN trie /\ Children(trie, <<A>>) = {}
  /\ Find(trie, A_A) = Null
  /\ FindByLongestPrefix(trie, A_A_A) = reg[A]

\* C11: a step that removes the value of a key k, or that removes a key
\* carrying none and changes the tree, leaves every other key that carried
\* a value with the same result of find and of findByLongestPrefix: the
\* keys extending k by one or more segments, its ancestors and its siblings.
C11_RemoveKeepsOthers ==
  [][ (lastRemoved' # <<>> \/ (reg' = reg /\ trie' # trie)) =>
        \A d \in Keys :
          (reg[d] # Null /\ lastRemoved' # <<d>>) =>
            /\ Find(trie', d) = reg[d]
            /\ Find(trie', d) = Find(trie, d)
            /\ FindByLongestPrefix(trie', d) = FindByLongestPrefix(trie, d)
    ]_vars

\* C11 witness: the value of "a" has just been removed while "a.a" and
\* "a.a.a" below it carry values; both are still found.
C11_Witness ==
  /\ lastRemoved = <<A>>
  /\ reg[A_A] = "v1" /\ reg[A_A_A] = "v2"
  /\ Find(trie, A) = Null
  /\ Find(trie, A_A) = "v1" /\ Find(trie, A_A_A) = "v2"
  /\ FindByLongestPrefix(trie, A_A_A) = "v2"

\* C12: when the empty path carries a value and no dot-aligned prefix of
\* the key does, findByLongestPrefix(key) returns the value of the empty
\* path.  (The walk starts from an empty lastValue and never reads
\* m_root.m_value, lines 71-72: it returns the empty pointer instead.)
C12_RootDefault ==
  \A q \in Queries :
    (reg[<<>>] # Null /\ LongestPrefixValue(reg, q) = Null) =>
      FindByLongestPrefix(trie, q) = reg[<<>>]

-----------------------------------------------------------------------------
(* Specification of the Repository under concurrent getLogger calls *)

InitRepo == RepoInit /\ SinkIdle /\ TrieIdle /\ LogIdle /\ ExtIdle
NextRepo == RepoNext
SpecRepo == InitRepo /\ [][NextRepo]_vars

-----------------------------------------------------------------------------
(* Claims about the Repository *)

\* C5: all getLogger calls for one path return the same Logger instance,
\* and it is the one instance the registry holds for that path; the
\* registry holds no instance twice under one path and no two calls create
\* two instances for it.
C5_OneInstancePerPath ==
  /\ \A r1 \in returned : \A r2 \in returned :
       r1[1] = r2[1] => r1[2] = r2[2]
  /\ \A r \in returned : Find(m_loggers, r[1]) = r[2]
  /\ \A p \in RepoPaths :
       Cardinality({i \in 1..Len(heap) : heap[i].m_name = p}) <= 1

\* C5 witness: both threads have made all their calls, the last of each
\* for "a.a", and the registry has handed out the instance it holds for it.
C5_Witness ==
  /\ \A t \in Threads : rpc[t] = "idle" /\ rarg[t].calls = MaxGetCalls
  /\ \A t \in Threads : rarg[t].path = <<"a", Dot, "a">>
  /\ \E i \in 1..Len(heap) : <<<<"a", Dot, "a">>, Addresses[i]>> \in returned
  /\ Len(heap) >= 2

\* The settings a child takes from its parent.
Settings(logger) ==
  <<logger.m_outputters, logger.m_headerGenerators, logger.m_level,
    logger.m_flushApplier>>

\* The registered paths that are dot-aligned prefixes of path, and the
\* longest of them.
RegisteredPrefixes(path) ==
  {p \in RepoPaths : Find(m_loggers, p) # Null /\ IsDotAlignedPrefix(p, path)}
LongestRegisteredPrefix(path) ==
  CHOOSE p \in RegisteredPrefixes(path) :
    \A j \in RegisteredPrefixes(path) : Len(j) <= Len(p)

\* The step in which the getLogger call of thread t, having missed on the
\* exact path, registers a logger and returns.
Creates(t) == rpc[t] \in {"g_inherit", "g_new"} /\ rpc'[t] = "idle"

\* The logger allocated by the step is registered under path and returned.
RegistersNew(path) ==
  /\ Len(heap') = Len(heap) + 1
  /\ Find(m_loggers', path) = Addresses[Len(heap')]
  /\ returned' = returned \cup {<<path, Addresses[Len(heap')]>>}
  /\ heap'[Len(heap')].m_name = path

C14_InheritanceIsSnapshot ==
  [][ \A c \in 1..Len(heap) :
        heap[c].copiedFrom # Null =>
          LET p == CHOOSE i \in 1..Len(Addresses) :
                     Addresses[i] = heap[c].copiedFrom IN
            /\ Settings(heap'[p]) # Settings(heap[p]) => heap'[c] = heap[c]
            /\ Settings(heap'[c]) # Settings(heap[c]) => heap'[p] = heap[p]
    ]_vars

\* C14 witness: a child created from its parent when both had a sink and
\* the default level; the parent has since been set to Warn, the child is
\* still at Info.
C14_Witness ==
  \E p, c \in 1..Len(heap) :
    /\ heap[c].copiedFrom = Addresses[p]
    /\ heap[p].m_outputters = <<"s1">> /\ heap[c].m_outputters = <<"s1">>
    /\ heap[p].m_level = "Warn" /\ heap[c].m_level = "Info"

\* C15: getLogger(path) that misses on the exact path with inheritance
\* disabled, or enabled while no registered path is a dot-aligned prefix,
\* registers and returns a new logger named path at level Info without
\* sinks and without header generators.
C15_DefaultLogger ==
  [][ \A t \in Threads :
        (/\ Creates(t)
         /\ \/ ~rarg[t].inheritFromParent
            \/ RegisteredPrefixes(rarg[t].path) = {}) =>
          /\ RegistersNew(rarg[t].path)
          /\ heap'[Len(heap')].m_level = "Info"
          /\ heap'[Len(heap')].m_outputters = <<>>
          /\ heap'[Len(heap')].m_headerGenerators = <<>>
    ]_vars

\* C15 witness: "a" has a sink and level Warn; "a.a" was allocated after
\* it, copied from no logger, and has the defaults; a call for "a.a" with
\* inheritance disabled has returned it.
C15_Witness ==
  \E p, c \in 1..Len(heap) :
    /\ p < c
    /\ heap[p].m_name = A /\ heap[p].m_level = "Warn"
    /\ heap[p].m_outputters = <<"s1">>
    /\ heap[c].m_name = A_A /\ heap[c].copiedFrom = Null
    /\ heap[c].m_level = "Info" /\ heap[c].m_outputters = <<>>
    /\ heap[c].m_headerGenerators = <<>>
    /\ \E t \in Threads :
         /\ rpc[t] = "idle" /\ rarg[t].path = A_A
         /\ ~rarg[t].inheritFromParent
         /\ <<A_A, Addresses[c]>> \in returned

-----------------------------------------------------------------------------
(* Specification of the Repository under getLogger and addLogger calls *)

InitRepoAdd == RepoInit /\ SinkIdle /\ TrieIdle /\ LogIdle /\ ExtIdle
NextRepoAdd == RepoAddNext
SpecRepoAdd == InitRepoAdd /\ [][NextRepoAdd]_vars

\* C16: an addLogger(path, logger) call that has taken the mutex can always
\* complete; the registry's entry of every path is the logger of the last
\* addLogger or creation for that exact path, so an addLogger replaces the
\* entry of its path and changes no other; and every getLogger(path) that
\* finds an entry returns exactly that logger.
C16_AddLoggerReplaces ==
  /\ [](\A t \in Threads : rpc[t] = "a_insert" => ENABLED AddLoggerInsert(t))
  /\ [](\A p \in RepoPaths : Find(m_loggers, p) = registered[p])
  /\ [][ \A t \in Threads :
           /\ (rpc[t] = "a_insert" /\ rpc'[t] = "idle") =>
                /\ Find(m_loggers', rarg[t].path) = rarg[t].logger
                /\ \A p \in RepoPaths \ {rarg[t].path} :
                     Find(m_loggers', p) = Find(m_loggers, p)
           /\ (rpc[t] = "g_find" /\ rpc'[t] = "idle") =>
                returned' =
                  returned \cup {<<rarg[t].path, registered[rarg[t].path]>>}
       ]_vars

\* C16 witness: "a" was created as one logger, addLogger("a", l) has
\* registered under it the logger l created for another path, and a later
\* getLogger("a") has returned l.
C16_Witness ==
  \E i, j \in 1..Len(heap) :
    /\ i # j
    /\ heap[i].m_name = A /\ heap[j].m_name # A
    /\ <<A, Addresses[i]>> \in returned
    /\ <<A, Addresses[j]>> \in returned
    /\ Find(m_loggers, A) = Addresses[j]
    /\ \A t \in Threads : rpc[t] = "idle"

\* C37: after any sequence of getLogger and addLogger calls, every Logger
\* registered in the Repository under a path p has getName() = p.
C37_RegisteredNameIsPath ==
  \A p \in RepoPaths : \A j \in 1..Len(heap) :
    Find(m_loggers, p) = Addresses[j] => heap[j].m_name = p

-----------------------------------------------------------------------------
(* Specification of one Logger and its sinks *)

InitLogger == LogInit /\ SinkIdle /\ TrieIdle /\ RepoIdle /\ ExtIdle
NextLogger == LogNext
SpecLogger == InitLogger /\ [][NextLogger]_vars

-----------------------------------------------------------------------------
(* Claims about the Logger *)

\* Everything a sink has been given: what its file received, then what it
\* still buffers.
Stream(s) == s.file \o s.pending

\* The formatted message of the call that has just been made.
MessageOf(call) ==
  Format(lg.m_name, call.level, lg.m_headerGenerators, call.text)

\* C6: a debug/info/warn/error call at level L on a logger with threshold T
\* appends exactly one line to each attached sink (once per attachment)
\* when L >= T and changes no other sink; when L < T no sink receives
\* bytes, none is flushed and no mutex is taken.
C6_LevelFilter ==
  [][ lastCall'.n # lastCall.n =>
        IF LevelNum(lastCall'.level) >= LevelNum(lg.m_level)
        THEN \A s \in SinkIds :
               /\ Stream(sinks'[s]) =
                    Stream(sinks[s])
                      \o Flatten([i \in 1..Count(lg.m_outputters, s) |->
                                    MessageOf(lastCall')])
               /\ Count(lg.m_outputters, s) > 0 =>
                    sinks'[s].acquired > sinks[s].acquired
               /\ Count(lg.m_outputters, s) = 0 => sinks'[s] = sinks[s]
        ELSE sinks' = sinks /\ lg' = lg
    ]_vars

\* C6 witness: a logger at threshold Warn with both sinks attached has
\* dropped an Info call after an Error call went to both sinks.
C6_Witness ==
  /\ lg.m_level = "Warn" /\ lg.m_outputters = <<"s1", "s2">>
  /\ lg.m_headerGenerators = <<"Level">>
  /\ lastCall.n = 2 /\ lastCall.level = "Info"
  /\ \A s \in SinkIds :
       Stream(sinks[s]) =
         <<"[", "E", "R", "R", "O", "R", "]", " ", "x", NL>>

\* The sink has not been used: no append, no evaluation of a flusher and
\* no flush before.
FirstEvaluation(s) == s.acquired = 0

\* C17: TimeThresholdFlush, evaluated after an append on a sink, flushes
\* iff the time since the sink's lastFlush() is at least the threshold or
\* the evaluation is the very first for the sink.  (m_lastFlush starts at
\* the time of construction, so a first call made less than the threshold
\* after construction does not flush.)
C17_TimeThreshold ==
  [][ (/\ lastCall'.n # lastCall.n
       /\ LevelNum(lastCall'.level) >= LevelNum(lg.m_level)
       /\ lg.m_flushApplier = "TimeThresholdFlush") =>
        \A s \in SinkIds :
          Count(lg.m_outputters, s) = 1 =>
            LET appended == SinkOutput(sinks[s], MessageOf(lastCall'), clock)
                flushCalled == sinks'[s].acquired = sinks[s].acquired + 3 IN
              flushCalled <=>
                \/ FirstEvaluation(sinks[s])
                \/ clock - appended.m_lastFlush >= FlushThreshold
    ]_vars

-----------------------------------------------------------------------------
(* Specification of the flushers side by side *)

InitFlush == FlushInit /\ SinkIdle /\ TrieIdle /\ RepoIdle /\ ExtIdle
NextFlush == FlushNext
SpecFlush == InitFlush /\ [][NextFlush]_vars

-----------------------------------------------------------------------------
(* Claims about the flushers and flush() *)

IsPrefixOf(a, b) == Len(a) <= Len(b) /\ SubSeq(b, 1, Len(a)) = a

\* C18: fed the same calls, the sinks of the three flushers hold the same
\* bytes once each is finally flushed; before that the file of each holds
\* a prefix of those bytes.
C18_PolicyIndependent ==
  \A f \in Flushers :
    /\ SinkFlush(sinks[f], clock).file =
         SinkFlush(sinks["NeverFlush"], clock).file
    /\ SinkFlush(sinks[f], clock).pending = <<>>
    /\ IsPrefixOf(sinks[f].file, SinkFlush(sinks["NeverFlush"], clock).file)

\* C18 witness: after two calls and no flush() the NeverFlush sink has
\* written nothing, the AlwaysFlush sink everything, and the
\* TimeThresholdFlush sink the first line only.
C18_Witness ==
  /\ lastCall.n = 2 /\ lastCall.flushes = 0
  /\ sinks["NeverFlush"].file = <<>>
  /\ Len(sinks["NeverFlush"].pending) > 0
  /\ sinks["AlwaysFlush"].pending = <<>>
  /\ sinks["AlwaysFlush"].file = sinks["NeverFlush"].pending
  /\ Len(sinks["TimeThresholdFlush"].file) > 0
  /\ Len(sinks["TimeThresholdFlush"].pending) > 0

\* C19: every flush() call on a sink writes the buffered bytes to the
\* file, leaves the buffer empty and sets the last-flush time to the time
\* of the call.  (flushUnlocked returns before the time is recorded when
\* the buffer is empty.)
C19_FlushRecordsTime ==
  [][ \A f \in Flushers :
        (lastCall'.flushes # lastCall.flushes
           /\ sinks'[f].acquired # sinks[f].acquired) =>
          /\ sinks'[f].file = sinks[f].file \o sinks[f].pending
          /\ sinks'[f].pending = <<>>
          /\ sinks'[f].m_lastFlush = clock
    ]_vars

-----------------------------------------------------------------------------
(* Specification of a FileOutputter on a path *)

InitFile ==
  /\ FileInit /\ SinkIdle /\ TrieIdle /\ RepoIdle /\ LogIdle
  /\ HotIdle /\ TimeIdle /\ NativeIdle /\ MapIdle /\ LockIdle
NextFile == FileNext
SpecFile == InitFile /\ [][NextFile]_vars

-----------------------------------------------------------------------------
(* Claims about opening the file and about failing writes *)

\* C21: the bytes a file had when the sink opened it stay where they are;
\* the file is those bytes followed by what the sink delivered, which is
\* the lines of the output() calls when every write got through; a path
\* that did not exist is created as an empty file.
C21_AppendOnly ==
  fo.state = "ok" =>
    /\ IsPrefixOf(fo.atOpen, disk.bytes)
    /\ disk.exists
    /\ ~fo.existed => fo.atOpen = <<>>
    /\ ~fo.everShort =>
         disk.bytes \o fo.m_buffer = fo.atOpen \o Flatten(fo.lines)

\* C21 witness: a sink on a file that had a line in it, after a buffered
\* and an oversized message and a flush, every write complete.
C21_Witness ==
  /\ fo.state = "ok" /\ fo.existed /\ fo.atOpen # <<>> /\ ~fo.everShort
  /\ fo.m_buffer = <<>> /\ fo.calls = MaxFileCalls
  /\ \E i, j \in 1..Len(fo.lines) :
       IsOversized(Len(fo.lines[i]), FileCap)
         /\ ~IsOversized(Len(fo.lines[j]), FileCap)
  /\ disk.bytes = fo.atOpen \o Flatten(fo.lines)

\* C22: when the file cannot be opened for append the constructor throws,
\* no call is ever made on the object, the path is left as it was, and the
\* error of an existing path differs from that of one that cannot be
\* created.
C22_OpenFailureReported ==
  /\ (fo.state # "none" /\ ~disk.permitted) =>
       /\ fo.state = "thrown"
       /\ fo.calls = 0 /\ fo.lines = <<>>
       /\ disk.bytes = fo.atOpen /\ disk.exists = fo.existed
       /\ fo.error = IF fo.existed THEN NotEnoughRights ELSE FailedToOpen
  /\ fo.state = "thrown" => fo.error # ""
  /\ NotEnoughRights # FailedToOpen

\* C22 witness: construction has failed on a file that exists.
C22_Witness ==
  /\ fo.state = "thrown" /\ fo.existed /\ ~disk.permitted
  /\ fo.error = NotEnoughRights /\ disk.bytes # <<>>

\* C23: an output() or flush() call in which a write got fewer bytes
\* through than it was given does not return normally.  (details::write
\* drops the result of fwrite and the cursor is reset all the same.)
C23_WriteFailureReported ==
  fo.short => fo.outcome = "thrown"


-----------------------------------------------------------------------------
(* Specification of a logger whose sinks fail *)

InitFanout == FanoutInit /\ SinkIdle /\ TrieIdle /\ RepoIdle /\ ExtIdle
NextFanout == FanoutNext
SpecFanout == InitFanout /\ [][NextFanout]_vars

\* C24: in a log call during which the write of one sink failed, output()
\* has been called on every sink of the logger, and every failure has been
\* reported to the caller.  (The loop has no handler: a sink that throws
\* ends the call before the sinks after it, and a FileOutputter's failed
\* write is not reported at all.)
C24_FailureIsolated ==
  lastCall.failed # {} =>
    /\ Range(lastCall.outputters) \subseteq lastCall.attempted
    /\ lastCall.failed \subseteq lastCall.reported

-----------------------------------------------------------------------------
(* Specification of one Logger used by two threads *)

InitHot ==
  /\ HotInit /\ SinkIdle /\ TrieIdle /\ RepoIdle /\ LogIdle
  /\ FileIdle /\ TimeIdle /\ NativeIdle /\ MapIdle /\ LockIdle
NextHot == HotNext
SpecHot == InitHot /\ [][NextHot]_vars

\* C25: the sink list, the header-generator list and the flusher are
\* written only with m_mutex held, and never while a log call of another
\* thread is reading or walking the member written.  (The logging path
\* reads the members in place, without m_mutex and without a copy.)
C25_ConfigLockAndSnapshot ==
  /\ \A t \in Threads : hpc[t].pc = "c_write" => lk.m_mutex = t
  /\ \A t \in Threads : lk.written \notin Reading(hpc[t].pc)
  /\ \A t \in Threads : hpc[t].raced = {}

-----------------------------------------------------------------------------
(* Specification of the formatter *)

InitFormat == FormatInit /\ SinkIdle /\ TrieIdle /\ RepoIdle /\ ExtIdle
NextFormat == FormatNext
SpecFormat == InitFormat /\ [][NextFormat]_vars

\* "[" g(meta) "] " for each generator of hs, at its position, and the text
\* after them.
RECURSIVE ExpectedLine(_, _, _)
ExpectedLine(hs, metaData, text) ==
  IF hs = <<>> THEN text
  ELSE <<"[">> \o Generate(Head(hs), metaData) \o <<"]", " ">>
         \o ExpectedLine(Tail(hs), metaData, text)

\* The bytes a sink has been given: those in its file and those buffered.
GivenTo(s) == s.file \o s.pending

\* C26: the line a call hands to the sink is, for the header generators in
\* the order they were added, "[" g(meta) "] " for each, followed by the
\* text, every generator being applied to the meta data made when the call
\* began (the logger's name, the call's level, the time of the call) even
\* if the clock has advanced since; with no generators the line is the text
\* alone.
C26_LineIsHeadersThenMessage ==
  [][ (lastCall.pc = "loop" /\ lastCall'.pc = "idle") =>
        LET hs   == lg.m_headerGenerators
            meta == LogMetaData(lg.m_name, lastCall.level, lastCall.at)
            line == lastCall'.line IN
          /\ line = ExpectedLine(hs, meta, lastCall.text)
          /\ GivenTo(sinks'["s1"]) =
               GivenTo(sinks["s1"]) \o line \o <<NL>>
          /\ hs = <<>> => line = lastCall.text
          /\ "Time" \notin Range(hs) =>
               line = Format(lg.m_name, lastCall.level, hs, lastCall.text)
    ]_vars

\* C26 witness: a call made at time 0 with the generators Time, Level and
\* LoggerName, added in this order, has handed its line to the sink after
\* the clock advanced.
C26_Witness ==
  /\ lastCall.pc = "idle" /\ lastCall.n >= 1 /\ ~lastCall.dropped
  /\ lg.m_headerGenerators = <<"Time", "Level", "LoggerName">>
  /\ lastCall.at = 0 /\ clock > 0
  /\ lastCall.line = <<"[", "t", "0", "]", " ",
                       "[", "W", "A", "R", "N", "]", " ",
                       "[", "n", "]", " ", "x">>
  /\ GivenTo(sinks["s1"]) = lastCall.line \o <<NL>>

-----------------------------------------------------------------------------
(* Specifications of write_bytes and write_line *)

InitNative ==
  /\ NativeInit /\ SinkIdle /\ TrieIdle /\ RepoIdle /\ LogIdle
  /\ FileIdle /\ HotIdle /\ TimeIdle /\ MapIdle /\ LockIdle
NextNative == NativeNext
SpecNative == InitNative /\ [][NextNative]_vars

\* The thread inside write_bytes or write_line keeps running and every
\* system call returns.
SpecNativeFair == SpecNative /\ WF_vars(SystemCalls)

\* C27: when write_line returns, the file has received exactly the message
\* followed by one newline, each byte once and in order, whatever writev
\* returned, and no byte outside the message was read.
C27_WriteLineExact ==
  (wr.routine = "write_line" /\ wr.pc = "returned") =>
    /\ wr.out = wr.before \o wr.data \o <<NL>>
    /\ ~wr.oob

\* The step is a system call of the loop of write_bytes.
InWriteBytes == wr.pc = "bytes" /\ wr.total < Len(wr.buf)

\* What one system call of write_bytes does, by its result.
WriteBytesStep ==
  CASE wr'.last.kind = "eintr" ->
         /\ wr'.pc = "bytes" /\ wr'.buf = wr.buf
         /\ wr'.total = wr.total /\ wr'.out = wr.out
    [] wr'.last.kind = "failed" \/ wr'.last.n = 0 ->
         wr'.pc = "thrown" /\ wr'.out = wr.out
    [] OTHER ->
         /\ wr'.pc = "bytes" /\ wr'.buf = wr.buf
         /\ wr'.total = wr.total + wr'.last.n
         /\ wr'.out = wr.out \o SubSeq(wr.buf, wr.total + 1,
                                       wr.total + wr'.last.n)

\* C28: write_bytes returns having written exactly data[0..len) in order;
\* an interrupted write is retried at the same offset and is never what
\* the caller gets, a short write advances the offset by the count
\* written, a failing or zero-byte write raises an error at once; and if
\* writes are interrupted only finitely often every call of write_bytes
\* comes to its end (return or error).
C28_WriteBytesTerminatesExact ==
  /\ []((wr.routine = "write_bytes" /\ wr.pc = "returned") =>
          wr.out = wr.before \o wr.data)
  /\ [](wr.pc = "thrown" =>
          wr.last.kind = "failed" \/ (wr.last.kind = "count" /\ wr.last.n = 0))
  /\ [][(InWriteBytes /\ wr' # wr) => WriteBytesStep]_vars
  /\ (<>[](wr.last.kind # "eintr")) => [](wr.pc = "bytes" => <>(wr.pc # "bytes"))

\* C28 witness: write_bytes has returned after writing "abc" in more than
\* one write, one of them interrupted.
C28_Witness ==
  /\ wr.routine = "write_bytes" /\ wr.pc = "returned"
  /\ wr.data = <<"a", "b", "c">> /\ wr.sawEintr /\ wr.sawShort
  /\ wr.out = wr.before \o wr.data

-----------------------------------------------------------------------------
(* Specification of the timestamp generator on one thread *)

InitTime ==
  /\ TimeInit /\ SinkIdle /\ TrieIdle /\ RepoIdle /\ LogIdle
  /\ FileIdle /\ HotIdle /\ NativeIdle /\ MapIdle /\ LockIdle
NextTime == TimeNext
SpecTime == InitTime /\ [][NextTime]_vars

\* The string the last call of the generator returned: on a hit and after
\* a rendering alike it is the string of the cache entry (lines 330, 341).
Returned ==
  cachedTimes[CacheKey(tenv.timeType, tenv.fmt)].lastFormattedTime

-----------------------------------------------------------------------------
(* Specification of two timestamp formats on one thread *)

InitTimeKeys ==
  /\ TimeKeysInit /\ SinkIdle /\ TrieIdle /\ RepoIdle /\ LogIdle
  /\ FileIdle /\ HotIdle /\ NativeIdle /\ MapIdle /\ LockIdle
NextTimeKeys == TimeKeysNext
SpecTimeKeys == InitTimeKeys /\ [][NextTimeKeys]_vars

\* C31: a call of the generator for (timeType, fmt) returns the string
\* last rendered for that same time type and that same format, never one
\* rendered for the other time type or for another format, and leaves
\* the cache entries of all other pairs as they were.
C31_CacheKeyedByPair ==
  [][ tenv'.calls # tenv.calls =>
        LET key == <<tenv'.timeType, tenv'.fmt>> IN
          /\ Returned' = tenv'.rendered[key]
          /\ \A k \in DOMAIN cachedTimes :
               k # key => cachedTimes'[k] = cachedTimes[k] ]_vars

\* C31 witness: within one second the thread has rendered the same format
\* as local time and as UTC, and another format as well; the last call
\* was answered from the cache, and the three strings differ.
C31_Witness ==
  LET local == cachedTimes[<<"Local", "%S%z">>]
      utc   == cachedTimes[<<"Utc", "%S%z">>]
      other == cachedTimes[<<"Utc", "%S">>] IN
    /\ tenv.hit /\ tenv.timeType = "Utc" /\ tenv.fmt = "%S%z"
    /\ local.lastTimePoint = FloorSeconds(tenv.wall)
    /\ utc.lastTimePoint = local.lastTimePoint
    /\ other.lastTimePoint = local.lastTimePoint
    /\ local.lastFormattedTime # <<>> /\ other.lastFormattedTime # <<>>
    /\ Returned = utc.lastFormattedTime
    /\ Returned # local.lastFormattedTime
    /\ Returned # other.lastFormattedTime

\* C29: whenever a local timestamp is rendered ten seconds or more after
\* the offset was last resolved, the offset is resolved again in that call,
\* however recently the entry of the per-second cache was refreshed; no
\* rendered timestamp uses an offset resolved more than the refresh
\* interval plus one second before.  (The test is made against the time
\* point of the per-second cache entry, which a thread that keeps logging
\* moves along every second.)
C29_OffsetStalenessBounded ==
  [][ (tenv'.calls # tenv.calls /\ tenv'.timeType = "Local"
         /\ ~tenv'.hit) =>
        LET now == FloorSeconds(tenv.wall) IN
          /\ now - tenv.resolvedAt >= timeZoneOffsetRefreshInterval
               => tenv'.resolved
          /\ now - tenv'.resolvedAt
               <= timeZoneOffsetRefreshInterval + 1 * UnitsPerSecond
    ]_vars

\* C30: the generator returns the cached string exactly when the message's
\* timestamp floors to the second of the cache entry; for any other second,
\* later or earlier, it renders anew, and the fragment returned always
\* shows the message's own second.  (now - last < 1s also holds for every
\* earlier second.)
C30_CacheKeyedBySecond ==
  [][ tenv'.calls # tenv.calls =>
        LET now  == FloorSeconds(tenv.wall)
            last == cachedTimes[<<tenv'.timeType, tenv'.fmt>>].lastTimePoint
        IN
          /\ tenv'.hit <=> now = last
          /\ Returned'.sec = now \div UnitsPerSecond
    ]_vars

-----------------------------------------------------------------------------
(* Specification of the locks of Repository, Logger and FileOutputter *)

InitLock ==
  /\ LockInit /\ SinkIdle /\ TrieIdle /\ RepoIdle /\ LogIdle
  /\ FileIdle /\ HotIdle /\ TimeIdle /\ NativeIdle /\ MapIdle
NextLock == LockNext
SpecLock == InitLock /\ [][NextLock]_vars

\* The locks shared process-wide: the registry's, and one a flusher owns.
SharedLocks == {Registry, FlusherLock}

\* C33: no lock shared process-wide (the registry lock, or a lock common to
\* all loggers or all sinks, such as one owned by a flush policy) is held
\* by a thread while that thread performs a write or flush to a sink's
\* backing resource: a thread inside a write holds the lock of that sink
\* and no other, so a slow write can only block callers of the same sink.
C33_NoSharedLockAcrossWrite ==
  \A t \in LockThreads :
    thr[t].pc \in WritePcs =>
      /\ HeldBy(t) \cap SharedLocks = {}
      /\ HeldBy(t) \subseteq SinkLocks /\ Cardinality(HeldBy(t)) = 1

\* The locks the next step of a thread takes.
WantedBy(t) ==
  CASE thr[t].pc = "g_getter" -> {ConfigOf("B")}
    [] thr[t].pc = "d_lock" -> {SinkOf("A")}
    [] thr[t].pc \in {"o_lock", "lf_lock", "fl_lock"} ->
         {SinkOf(thr[t].logger)}
    [] thr[t].pc = "f_enter" -> FlusherLocks(thr[t].flusher)
    [] OTHER -> {}

\* A set of threads each waiting for a lock one of them holds.
Deadlocked(D) ==
  /\ D # {}
  /\ \A t \in D : \E k \in WantedBy(t) : lockOwner[k] \in D

\* A thread that is inside a call can always go on, or the holder of the
\* lock it waits for can.
NoDeadlock ==
  /\ \A D \in SUBSET LockThreads : ~Deadlocked(D)
  /\ \A t \in LockThreads :
       thr[t].pc # "idle" =>
         \/ \A k \in WantedBy(t) : lockOwner[k] = Free
         \/ \E u \in LockThreads \ {t} :
              thr[u].pc # "idle" /\ \A k \in WantedBy(u) : lockOwner[k] = Free

\* The lock a step of thread t takes, with the locks t holds before it.
Takes(t, k) == lockOwner[k] # t /\ lockOwner'[k] = t

-----------------------------------------------------------------------------
(* Specification of the local-offset resolvers *)

InitOffset ==
  /\ OffsetInit /\ SinkIdle /\ TrieIdle /\ RepoIdle /\ LogIdle
  /\ FileIdle /\ HotIdle /\ NativeIdle /\ MapIdle /\ LockIdle
NextOffset == OffsetNext
SpecOffset == InitOffset /\ [][NextOffset]_vars

\* C39: every local-offset resolver returns the signed number of minutes
\* local time is ahead of UTC (positive east of UTC), so the Linux helper
\* getLocalTimeZoneOffsetMinutes, the tm_gmtoff-based
\* getTimeZoneOffsetInMinutes and the Windows helper agree in sign and
\* magnitude for the same instant, and toNumericUtcOffset renders that value
\* with the matching sign.
C39_ResolversAgree ==
  tenv.n > 0 =>
    LET ahead == AheadOfUtc(tenv.std, tenv.isdst)
        abs == IF ahead >= 0 THEN ahead ELSE 0 - ahead IN
      /\ tenv.gmtoff = ahead
      /\ tenv.windows = ahead
      /\ tenv.linux = ahead
      /\ tenv.numeric = <<IF ahead >= 0 THEN "+" ELSE "-",
                          abs \div 60, abs % 60>>

-----------------------------------------------------------------------------
(* Specification of Logger::log taken one sink at a time *)

InitVisit ==
  /\ VisitInit /\ SinkIdle /\ TrieIdle /\ RepoIdle /\ ExtIdle
NextVisit == VisitNext
SpecVisit == InitVisit /\ [][NextVisit]_vars

\* The calls log() makes on the sinks in the list l, in order.
VisitsOf(l) ==
  [k \in 1..(2 * Len(l)) |->
     [op |-> IF k % 2 = 1 THEN "output" ELSE "flusher",
      at |-> (k + 1) \div 2, sink |-> l[(k + 1) \div 2]]]

\* All bytes a sink has been given: written and buffered.
BytesOf(s) == s.file \o s.pending

\* C34: an emitted log call visits the logger's sinks in list order, and
\* applies the flush policy to each sink right after appending the line to
\* it and before appending to the next sink; every sink in the list is
\* given the line exactly once per emitted call (once for each place it has
\* in the list), and a sink not in the list is given nothing.
C34_SinkBySinkInOrder ==
  /\ \A k \in 1..Len(lastCall.trace) :
       /\ k <= 2 * Len(lastCall.list)
       /\ lastCall.trace[k] = VisitsOf(lastCall.list)[k]
  /\ (lastCall.phase = "idle" /\ lastCall.emitted) =>
       /\ lastCall.trace = VisitsOf(lastCall.list)
       /\ \A s \in SinkIds :
            BytesOf(sinks[s]) =
              BytesOf(lastCall.before[s])
                \o Flatten(Replicate(lastCall.line,
                                      Count(lastCall.list, s)))
  /\ (lastCall.phase = "idle" /\ ~lastCall.emitted) =>
       /\ lastCall.trace = <<>>
       /\ lastCall.n > 0 => sinks = lastCall.before

\* C34 witness: the second call of a logger with the sinks s1 and s2, in
\* this order, and a flusher that wrote the line of s1 to its file, has
\* returned: four calls were made.
C34_Witness ==
  /\ lastCall.phase = "idle" /\ lastCall.emitted /\ lastCall.n = 2
  /\ lastCall.list = <<"s1", "s2">>
  /\ Len(lastCall.trace) = 4
  /\ BytesOf(lastCall.before["s1"]) # <<>>
  /\ sinks["s1"].pending = <<>> /\ sinks["s2"].pending = <<>>
  /\ sinks["s1"].file = BytesOf(lastCall.before["s1"])
                          \o lastCall.line \o <<NL>>

-----------------------------------------------------------------------------
(* Specification of the SegmentMap beside the SegmentTrie *)

InitEquiv ==
  /\ EquivInit /\ SinkIdle /\ RepoIdle /\ LogIdle
  /\ FileIdle /\ HotIdle /\ TimeIdle /\ NativeIdle /\ LockIdle
NextEquiv == EquivNext
SpecEquiv == InitEquiv /\ [][NextEquiv]_vars

\* C32: after the same inserts and removes of keys with non-empty segments
\* find(q) and findByLongestPrefix(q) give the same result in the
\* SegmentTrie and in the SegmentMap, for every key q looked up.
C32_TrieAndMapAgree ==
  mq.n > 0 =>
    /\ mq.mapFind = mq.trieFind
    /\ mq.mapLongest = mq.trieLongest

\* C38: the scan of SegmentMap::findByLongestPrefix reads no character
\* outside the key: where it starts, the index is below the key's size
\* (for the empty key it does not start at all), and for a key of one
\* character no prefix is probed.
C38_ScanWithinKey ==
  mq.n > 0 =>
    /\ mq.scanned => mq.first < Len(mq.q)
    /\ Len(mq.q) <= 1 => ~mq.scanned

=============================================================================
